---- MODULE Spec2Model ----
(***************************************************************************)
(* Model of the framestack backend: the Express auth router               *)
(* (requireAuth, requireRole, the authController handlers), the           *)
(* authService wrapper over the identity provider and the                 *)
(* firestoreService wrapper over the document database.                   *)
(*                                                                         *)
(* JavaScript values are tagged records [t |-> type, v |-> payload].      *)
(* Header and token strings are sequences of one-character strings, so    *)
(* that startsWith and split are computed as the runtime computes them.   *)
(***************************************************************************)
EXTENDS Integers, Sequences, FiniteSets, TLC

(* ----------------------------------------------------------------------- *)
(* Bounds                                                                  *)
(* ----------------------------------------------------------------------- *)

\* number of HTTP requests handled one after the other
MaxRequests == 2

\* number of document identifiers the collection draws from
MaxDocs == 2

\* number of data-access calls made one after the other
MaxCalls == 1

\* largest value of the ordering field of a stored document
MaxRank == 2

\* requests one run of the router under fair scheduling receives
MaxLiveRequests == 2

\* requests that arrive at the listening application in one run
MaxAppRequests == 1

\* custom-claims service calls started in one run
MaxSvcCalls == 2

\* data-access writes in a behaviour
MaxWrites == 1

(* ----------------------------------------------------------------------- *)
(* JavaScript values                                                       *)
(* ----------------------------------------------------------------------- *)

Undefined == [t |-> "undefined", v |-> "_"]

Null == [t |-> "null", v |-> "_"]

Bool(b) == [t |-> "boolean", v |-> b]

Num(n) == [t |-> "number", v |-> n]

\* a string whose content is not inspected (an atom)
Str(s) == [t |-> "string", v |-> s]

\* a string given character by character
Chars(s) == [t |-> "chars", v |-> s]

\* the number value NaN
NaN == [t |-> "nan", v |-> "_"]

Obj(o) == [t |-> "object", v |-> o]

\* the object literal {}
EmptyObj == [k \in {} |-> Undefined]

\* a test for the boolean true in place of ToBoolean
Truthy_strict(x) == x = Bool(TRUE)

\* JavaScript ToBoolean
Truthy(x) ==
  CASE x.t = "undefined" -> FALSE
    [] x.t = "null" -> FALSE
    [] x.t = "boolean" -> x.v
    [] x.t = "number" -> x.v # 0
    [] x.t = "string" -> x.v # ""
    [] x.t = "chars" -> Len(x.v) # 0
    [] x.t = "nan" -> FALSE
    [] OTHER -> TRUE

\* JavaScript typeof
TypeOf(x) ==
  CASE x.t = "null" -> "object"
    [] x.t = "chars" -> "string"
    [] x.t = "nan" -> "number"
    [] OTHER -> x.t

\* a function value, by the name it is known under
Fn(name) == [t |-> "function", v |-> name]

\* the properties every plain object inherits from Object.prototype
ObjectPrototype ==
  {"constructor", "hasOwnProperty", "isPrototypeOf", "propertyIsEnumerable",
   "toLocaleString", "toString", "valueOf", "__defineGetter__", "__defineSetter__",
   "__lookupGetter__", "__lookupSetter__", "__proto__"}

\* property read o[k] on a plain object: the own property, else the inherited
\* one (a function; Object.prototype itself under __proto__), else undefined
Get(o, k) ==
  IF k \in DOMAIN o THEN o[k]
  ELSE IF k = "__proto__" THEN [t |-> "object", v |-> "Object.prototype"]
  ELSE IF k \in ObjectPrototype THEN Fn(k)
  ELSE Undefined

\* a spread in which the keys already present win
Spread_keep(a, b) ==
  [k \in (DOMAIN a) \cup (DOMAIN b) |-> IF k \in DOMAIN a THEN a[k] ELSE b[k]]

\* object spread { ...a, ...b }: keys of both, b wins
Spread(a, b) ==
  [k \in (DOMAIN a) \cup (DOMAIN b) |-> IF k \in DOMAIN b THEN b[k] ELSE a[k]]

(* ----------------------------------------------------------------------- *)
(* Strings as character sequences                                          *)
(* ----------------------------------------------------------------------- *)

\* the literal "Bearer " of requireAuth
BearerPrefix == <<"B", "e", "a", "r", "e", "r", " ">>

\* startsWith that never looks at the last character of the prefix
StartsWith_short(s, p) ==
  Len(s) >= Len(p) /\ SubSeq(s, 1, Len(p) - 1) = SubSeq(p, 1, Len(p) - 1)

\* String.prototype.startsWith
StartsWith(s, p) == Len(s) >= Len(p) /\ SubSeq(s, 1, Len(p)) = p

\* first index (1-based) at which sep occurs in s, 0 when it does not
IndexOf(s, sep) ==
  LET hits == {i \in 1..(Len(s) - Len(sep) + 1) : SubSeq(s, i, i + Len(sep) - 1) = sep}
  IN IF hits = {} THEN 0 ELSE CHOOSE i \in hits : \A j \in hits : i <= j

\* String.prototype.split with a non-empty separator
RECURSIVE Split(_, _)
Split(s, sep) ==
  LET i == IndexOf(s, sep)
  IN IF i = 0 THEN <<s>>
     ELSE <<SubSeq(s, 1, i - 1)>> \o Split(SubSeq(s, i + Len(sep), Len(s)), sep)

\* array read a[n] with a 0-based index: undefined past the end
At(a, n) == IF n + 1 <= Len(a) THEN Chars(a[n + 1]) ELSE Undefined

(* ----------------------------------------------------------------------- *)
(* Error constants                                                         *)
(* ----------------------------------------------------------------------- *)

\* CustomError keeps the (code, status, message) triple it is built with
CustomError(code, status, message) ==
  [code |-> code, status |-> status, message |-> Str(message)]

AuthError ==
  [INVALID_TOKEN |-> CustomError(100, 401, "Invalid or expired authentication token"),
   NO_TOKEN_PROVIDED |-> CustomError(101, 401, "No authentication token provided"),
   USER_NOT_FOUND |-> CustomError(102, 404, "User not found"),
   USER_ALREADY_EXISTS |-> CustomError(103, 409, "A user with this email already exists"),
   WEAK_PASSWORD |-> CustomError(104, 400, "Password must be at least 6 characters"),
   INVALID_EMAIL |-> CustomError(105, 400, "The email address is invalid"),
   USER_DISABLED |-> CustomError(106, 403, "This user account has been disabled"),
   UNAUTHORIZED |-> CustomError(107, 403, "You are not authorized to perform this action")]

(* ----------------------------------------------------------------------- *)
(* State                                                                   *)
(* ----------------------------------------------------------------------- *)

VARIABLES
  users,      \* identity provider: uid -> stored user
  revoked,    \* identity provider: uids whose tokens issued so far are revoked
  req,        \* the request being handled
  reqUser,    \* req.user
  idx,        \* position in the route's handler chain
  pc,         \* "idle", "run" (handler idx is entered), "await", "done"
  pending,    \* the provider call the suspended handler awaits
  res,        \* responses sent for the request, in order
  nexts,      \* handlers of the request that called next(), in order
  calls,      \* provider calls made for the request, in order
  outcomes,   \* how the provider settled them, in order
  nreq,       \* requests received so far
  answeredRevoke, \* uids whose revocation an earlier request was answered 200 for
  arrived,    \* answeredRevoke as it was when the request was received
  parked,     \* requests suspended on an await while another one runs
  docs,       \* document database: the documents of the collection
  fsOp,       \* data-access call in progress
  fsPc,       \* "idle", "cursor" (awaiting the cursor read), "query", "done"
  fsReads,    \* provider reads issued by the data-access call, in order
  fsOut,      \* outcome of the data-access call
  fsCount,    \* data-access calls started so far
  fsSeen,     \* the collection as each settled read of the call found it
  fsWrites,   \* data-access writes completed so far, in order
  fsWriting,  \* data-access writes whose provider call is pending
  svcPc,      \* service call of each caller: "idle", "read", "write", "delete"
  svcCall,    \* the call each caller has in progress
  svcExisting,\* the argument of the provider write each caller awaits
  svcLog,     \* completed service calls, in order of completion
  appReq,     \* the request that arrived at the listening application
  appPc,      \* "idle", "stack" (in the application's middleware stack), "routed", "done"
  appIdx,     \* position in the application's middleware stack
  appRes,     \* responses the application itself sent for the request
  appCount    \* requests that arrived at the application so far

httpVars ==
  <<users, revoked, req, reqUser, idx, pc, pending, res, nexts, calls, outcomes, nreq,
    answeredRevoke, arrived, parked>>

fsVars == <<docs, fsOp, fsPc, fsReads, fsOut, fsCount, fsSeen, fsWrites, fsWriting>>

svcVars == <<svcPc, svcCall, svcExisting, svcLog>>

appVars == <<appReq, appPc, appIdx, appRes, appCount>>

vars == <<users, revoked, req, reqUser, idx, pc, pending, res, nexts, calls, outcomes,
          nreq, answeredRevoke, arrived, parked, docs, fsOp, fsPc, fsReads, fsOut, fsCount,
          fsSeen, fsWrites, fsWriting, svcPc, svcCall, svcExisting, svcLog, appReq, appPc, appIdx, appRes, appCount>>

(* ----------------------------------------------------------------------- *)
(* Identity provider (firebase-admin auth), as the wrapper calls it        *)
(* ----------------------------------------------------------------------- *)

\* the uids the provider can hold, in the provider's listing order
UidOrder == <<"u1", "u2", "u3">>

Uids == {UidOrder[i] : i \in 1..Len(UidOrder)}

NoUser ==
  [exists |-> FALSE, email |-> Undefined, displayName |-> Undefined,
   disabled |-> FALSE, customClaims |-> Undefined]

InitUsers ==
  [u \in Uids |->
    CASE u = "u1" -> [exists |-> TRUE, email |-> Str("e1"), displayName |-> Undefined,
                      disabled |-> FALSE,
                      customClaims |-> Obj([admin |-> Bool(TRUE)])]
      [] u = "u2" -> [exists |-> TRUE, email |-> Str("e2"), displayName |-> Undefined,
                      disabled |-> FALSE, customClaims |-> Undefined]
      [] OTHER -> NoUser]

\* ID tokens in circulation and the claims the provider decodes them to
TokenTable ==
  (<<"a">> :> [uid |-> Str("u1"), admin |-> Bool(TRUE)]) @@
  (<<"b">> :> [uid |-> Str("u2")]) @@
  (<<"c">> :> [uid |-> Str("u2"), admin |-> Bool(FALSE)]) @@
  (<<"d">> :> [uid |-> Str("u1"), admin |-> Str("no")])

Resolve(v, us, rv) == [ok |-> TRUE, value |-> v, users |-> us, revoked |-> rv]

Reject(code) ==
  [ok |-> FALSE, value |-> Obj([code |-> Str(code)]), users |-> users, revoked |-> revoked]

\* a failure the provider may answer any call with
Unavailable == Reject("auth/internal-error")

KnownUid(uid) == uid.t = "string" /\ uid.v \in Uids /\ users[uid.v].exists

\* UserRecord of a stored user
UserRecordIn(us, u) ==
  [uid |-> Str(u), email |-> us[u].email, displayName |-> us[u].displayName,
   photoURL |-> Undefined, emailVerified |-> Bool(FALSE),
   disabled |-> Bool(us[u].disabled), customClaims |-> us[u].customClaims,
   metadata |-> [creationTime |-> Str("t0"), lastSignInTime |-> Undefined]]

\* auth.verifyIdToken(idToken, checkRevoked)
auth_verifyIdToken(idToken, checkRevoked) ==
  LET known == idToken.t = "chars" /\ idToken.v \in DOMAIN TokenTable
      tok == TokenTable[idToken.v]
      u == tok.uid.v
  IN {Unavailable} \cup
     (IF ~known THEN {Reject("auth/argument-error")}
      ELSE IF ~checkRevoked THEN {Resolve(Obj(tok), users, revoked)}
      ELSE IF ~users[u].exists THEN {Reject("auth/user-not-found")}
      ELSE IF users[u].disabled THEN {Reject("auth/user-disabled")}
      ELSE IF u \in revoked THEN {Reject("auth/id-token-revoked")}
      ELSE {Resolve(Obj(tok), users, revoked)})

\* auth.getUser(uid)
auth_getUser(uid) ==
  {Unavailable} \cup
  (IF KnownUid(uid) THEN {Resolve(UserRecordIn(users, uid.v), users, revoked)}
   ELSE {Reject("auth/user-not-found")})

ValidEmail(e) == e.t = "string" /\ e.v \in {"e1", "e2", "e3"}

\* passwords of at least six characters
ValidPassword(pw) == pw.t = "string" /\ pw.v \in {"secret"}

EmailTaken(e, except) ==
  \E u \in Uids \ except : users[u].exists /\ users[u].email = e

FreeUids == {i \in 1..Len(UidOrder) : ~users[UidOrder[i]].exists}

\* auth.createUser(properties)
auth_createUser(properties) ==
  LET i == CHOOSE k \in FreeUids : \A j \in FreeUids : k <= j
      u == UidOrder[i]
      us == [users EXCEPT ![u] = [exists |-> TRUE, email |-> properties.email,
                                  displayName |-> properties.displayName,
                                  disabled |-> FALSE, customClaims |-> Undefined]]
  IN {Unavailable} \cup
     (IF ~ValidEmail(properties.email) THEN {Reject("auth/invalid-email")}
      ELSE IF ~ValidPassword(properties.password)
        THEN {Reject("auth/invalid-password"), Reject("auth/weak-password")}
      ELSE IF EmailTaken(properties.email, {}) THEN {Reject("auth/email-already-exists")}
      ELSE IF FreeUids = {} THEN {Reject("auth/quota-exceeded")}
      ELSE {Resolve(UserRecordIn(us, u), us, revoked)})

\* auth.updateUser(uid, properties): undefined properties are left as they are
auth_updateUser(uid, properties) ==
  LET u == uid.v
      old == users[u]
      new == [old EXCEPT
                !.email = IF properties.email = Undefined THEN @ ELSE properties.email,
                !.displayName = IF properties.displayName = Undefined THEN @
                                ELSE properties.displayName,
                !.disabled = IF properties.disabled = Undefined THEN @
                             ELSE properties.disabled.v]
      us == [users EXCEPT ![u] = new]
  IN {Unavailable} \cup
     (IF ~KnownUid(uid) THEN {Reject("auth/user-not-found")}
      ELSE IF properties.email # Undefined /\ ~ValidEmail(properties.email)
        THEN {Reject("auth/invalid-email")}
      ELSE IF properties.email # Undefined /\ EmailTaken(properties.email, {u})
        THEN {Reject("auth/email-already-exists")}
      ELSE IF properties.password # Undefined /\ ~ValidPassword(properties.password)
        THEN {Reject("auth/invalid-password")}
      ELSE IF properties.disabled # Undefined /\ properties.disabled.t # "boolean"
        THEN {Reject("auth/invalid-disabled-field")}
      ELSE {Resolve(UserRecordIn(us, u), us, revoked)})

\* auth.deleteUser(uid); the tokens issued for the uid stay invalid should the
\* uid be given to a later user
auth_deleteUser(uid) ==
  {Unavailable} \cup
  (IF ~KnownUid(uid) THEN {Reject("auth/user-not-found")}
   ELSE {Resolve(Undefined, [users EXCEPT ![uid.v] = NoUser], revoked \cup {uid.v})})

\* the uids a string array holds
UidsIn(uids) == {uids[i].v : i \in 1..Len(uids)}

\* most identifiers one auth.deleteUsers call takes
MaxDeleteUsers == 1000

\* auth.deleteUsers(uids): the users are removed in one call; a uid without a
\* user counts as deleted
auth_deleteUsers(uids) ==
  {Unavailable} \cup
  (IF Len(uids) > MaxDeleteUsers THEN {Reject("auth/maximum-user-count-exceeded")}
   ELSE {Resolve(Obj([successCount |-> Num(Len(uids)), failureCount |-> Num(0)]),
                 [u \in Uids |-> IF u \in UidsIn(uids) THEN NoUser ELSE users[u]],
                 revoked \cup (UidsIn(uids) \cap Uids))})

\* positions of UidOrder holding a user, after the page token
ListedFrom(pageToken) ==
  {i \in 1..Len(UidOrder) :
     /\ users[UidOrder[i]].exists
     /\ pageToken # Undefined =>
          \E j \in 1..Len(UidOrder) : UidOrder[j] = pageToken.v /\ j < i}

RECURSIVE Ascending(_)
\* the members of a set of integers in ascending order
Ascending(S) ==
  IF S = {} THEN <<>>
  ELSE LET m == CHOOSE x \in S : \A y \in S : x <= y
       IN <<m>> \o Ascending(S \ {m})

\* Array.prototype.slice(0, n)
Take(a, n) == SubSeq(a, 1, IF n < Len(a) THEN n ELSE Len(a))

\* auth.listUsers(maxResults, pageToken)
auth_listUsers(maxResults, pageToken) ==
  LET all == Ascending(ListedFrom(pageToken))
      page == Take(all, maxResults.v)
      more == Len(page) < Len(all)
      result == [users |-> [k \in 1..Len(page) |-> UserRecordIn(users, UidOrder[page[k]])],
                 pageToken |-> IF more THEN Str(UidOrder[page[Len(page)]]) ELSE Undefined]
  IN {Unavailable} \cup
     (IF maxResults.t # "number" \/ maxResults.v < 1 \/ maxResults.v > 1000
        THEN {Reject("auth/argument-error")}
      ELSE IF pageToken # Undefined /\ ~(pageToken.t = "string" /\ pageToken.v \in Uids)
        THEN {Reject("auth/invalid-page-token")}
      ELSE {Resolve(result, users, revoked)})

\* auth.setCustomUserClaims(uid, customUserClaims)
auth_setCustomUserClaims(uid, claims) ==
  {Unavailable} \cup
  (IF ~KnownUid(uid) THEN {Reject("auth/user-not-found")}
   ELSE {Resolve(Undefined, [users EXCEPT ![uid.v].customClaims = claims], revoked)})

\* shortest and longest session the provider issues a cookie for, in ms
MinSessionMs == 300000

MaxSessionMs == 1209600000

\* auth.createSessionCookie(idToken, { expiresIn })
auth_createSessionCookie(idToken, options) ==
  LET known == idToken.t = "chars" /\ idToken.v \in DOMAIN TokenTable
      d == options.expiresIn
  IN {Unavailable} \cup
     (IF d.t # "number" \/ d.v < MinSessionMs \/ d.v > MaxSessionMs
        THEN {Reject("auth/invalid-session-cookie-duration")}
      ELSE IF ~known THEN {Reject("auth/invalid-id-token")}
      ELSE {Resolve(Chars(<<"S">> \o idToken.v), users, revoked)})

\* auth.revokeRefreshTokens(uid)
auth_revokeRefreshTokens(uid) ==
  {Unavailable} \cup
  (IF ~KnownUid(uid) THEN {Reject("auth/user-not-found")}
   ELSE {Resolve(Undefined, users, revoked \cup {uid.v})})

(* ----------------------------------------------------------------------- *)
(* authService                                                             *)
(* ----------------------------------------------------------------------- *)

\* Map a Firebase UserRecord to a simplified AuthUser.
toAuthUser(user) ==
  Obj([uid |-> user.uid,
       email |-> user.email,
       displayName |-> user.displayName,
       photoURL |-> user.photoURL,
       emailVerified |-> user.emailVerified,
       disabled |-> user.disabled,
       customClaims |-> user.customClaims,
       createdAt |-> user.metadata.creationTime,
       lastSignIn |-> user.metadata.lastSignInTime])

\* continue a provider outcome with f when it resolved; a rejection passes through
Then(os, f(_)) ==
  {IF o.ok THEN [o EXCEPT !.value = f(o.value)] ELSE o : o \in os}

authService_verifyIdToken(idToken, checkRevoked) == auth_verifyIdToken(idToken, checkRevoked)

authService_getUserByUid(uid) == Then(auth_getUser(uid), toAuthUser)

authService_createUser(properties) == Then(auth_createUser(properties), toAuthUser)

authService_updateUser(uid, properties) == Then(auth_updateUser(uid, properties), toAuthUser)

authService_deleteUser(uid) == auth_deleteUser(uid)

ListUsersResult(result) ==
  Obj([users |-> [k \in DOMAIN result.users |-> toAuthUser(result.users[k])],
       pageToken |-> result.pageToken])

\* options.maxResults ?? 100
authService_listUsers(options) ==
  Then(auth_listUsers(IF options.maxResults \in {Undefined, Null} THEN Num(100)
                      ELSE options.maxResults,
                      options.pageToken),
       ListUsersResult)

authService_setCustomClaims(uid, claims) == auth_setCustomUserClaims(uid, claims)

\* a ?? b
Coalesce(a, b) == IF a.t \in {"undefined", "null"} THEN b ELSE a

\* a merge that writes the new claims only
MergedClaims_overwrite(existing, claims) == claims

\* { ...existing, ...claims } of authService.mergeCustomClaims
MergedClaims(existing, claims) == Obj(Spread(existing.v, claims.v))

authService_deleteUsers(uids) == auth_deleteUsers(uids)

authService_clearCustomClaims(uid) == auth_setCustomUserClaims(uid, Obj(EmptyObj))

authService_createSessionCookie(idToken, expiresIn) ==
  auth_createSessionCookie(idToken, [expiresIn |-> expiresIn])

authService_revokeRefreshTokens(uid) == auth_revokeRefreshTokens(uid)

(* ----------------------------------------------------------------------- *)
(* Requests                                                                *)
(* ----------------------------------------------------------------------- *)

\* the object holding the keys of o that carry a value
Present(o) == [k \in {f \in DOMAIN o : o[f] # Undefined} |-> o[k]]

Lower == <<"b", "e", "a", "r", "e", "r", " ">>

\* values of the Authorization header
Authorizations ==
  {Undefined, Chars(<<>>), Chars(<<"a">>), Chars(BearerPrefix),
   Chars(Lower \o <<"a">>), Chars(<<"B", "e", "a", "r", "e", "r", "a">>),
   Chars(<<" ">> \o BearerPrefix \o <<"a">>),
   Chars(<<"B", "a", "s", "i", "c", " ", "a">>),
   Chars(BearerPrefix \o <<"b">> \o BearerPrefix \o <<"a">>)}
  \cup {Chars(BearerPrefix \o <<c>>) : c \in {"a", "b", "c", "d", "z"}}

UidParams == {Str(u) : u \in Uids}

NoBody == [k \in {} |-> Undefined]

SessionBodies ==
  {Present([idToken |-> i, expiresIn |-> e]) :
     i \in {Undefined, Chars(<<>>), Num(0), Chars(<<"a">>), Chars(<<"z">>)},
     e \in {Undefined, Null, Num(0), Num(3600000), Str("3600000")}}

CreateBodies ==
  {Present([email |-> e, password |-> pw, displayName |-> Undefined]) :
     e \in {Undefined, Null, Str(""), Str("e1"), Str("e3"), Str("bad")},
     pw \in {Undefined, Str(""), Num(0), Str("pw"), Str("secret")}}

UpdateBodies ==
  {NoBody, [disabled |-> Bool(TRUE)], [disabled |-> Bool(FALSE)], [email |-> Str("e2")],
   [email |-> Str("e3")], [password |-> Str("pw")]}

ClaimsBodies ==
  {Present([claims |-> c]) :
     c \in {Undefined, Null, Bool(TRUE), Num(0), Str("admin"), Obj(EmptyObj),
            Obj([admin |-> Bool(TRUE)]), Obj([admin |-> Bool(FALSE)])}}

ListQueries ==
  {Present([maxResults |-> m, pageToken |-> t]) :
     m \in {Undefined, Chars(<<"1">>), Chars(<<" ", "2", "x">>), Chars(<<"x">>), Chars(<<"0">>),
            Chars(<<"\t", "0", "x", "2">>)},
     t \in {Undefined, Str("u1")}}

Request(method, path, uid, authorization, body, query) ==
  [method |-> method, path |-> path, uid |-> uid, authorization |-> authorization,
   body |-> body, query |-> query]

Requests ==
  {Request("POST", "/session", Undefined, a, b, NoBody) :
     a \in {Undefined, Chars(BearerPrefix \o <<"b">>)}, b \in SessionBodies}
  \cup {Request("GET", "/me", Undefined, a, NoBody, NoBody) : a \in Authorizations}
  \cup {Request("GET", "/users", Undefined, a, NoBody, q) : a \in Authorizations, q \in ListQueries}
  \cup {Request("POST", "/user", Undefined, a, b, NoBody) : a \in Authorizations, b \in CreateBodies}
  \cup {Request(m, "/user/:uid", u, a, NoBody, NoBody) :
          m \in {"GET", "DELETE"}, u \in UidParams, a \in Authorizations}
  \cup {Request("PUT", "/user/:uid", u, a, b, NoBody) :
          u \in UidParams, a \in Authorizations, b \in UpdateBodies}
  \cup {Request("POST", "/user/:uid/claims", u, a, b, NoBody) :
          u \in UidParams, a \in Authorizations, b \in ClaimsBodies}
  \cup {Request("POST", "/user/:uid/revoke", u, a, NoBody, NoBody) :
          u \in UidParams, a \in Authorizations}

(* ----------------------------------------------------------------------- *)
(* authRouter                                                              *)
(* ----------------------------------------------------------------------- *)

Handler(name) == [h |-> name, role |-> "_"]

RequireRole(role) == [h |-> "requireRole", role |-> role]

Route(method, path, chain) == [method |-> method, path |-> path, chain |-> chain]

\* the routes with DELETE /user/:uid registered without the role check
authRouter_open ==
  <<Route("POST", "/session", <<Handler("createSession")>>),
    Route("GET", "/me", <<Handler("requireAuth"), Handler("getMe")>>),
    Route("GET", "/users",
          <<Handler("requireAuth"), RequireRole("admin"), Handler("listUsers")>>),
    Route("POST", "/user",
          <<Handler("requireAuth"), RequireRole("admin"), Handler("createUser")>>),
    Route("GET", "/user/:uid",
          <<Handler("requireAuth"), RequireRole("admin"), Handler("getUserByUid")>>),
    Route("PUT", "/user/:uid",
          <<Handler("requireAuth"), RequireRole("admin"), Handler("updateUser")>>),
    Route("DELETE", "/user/:uid", <<Handler("requireAuth"), Handler("deleteUser")>>),
    Route("POST", "/user/:uid/claims",
          <<Handler("requireAuth"), RequireRole("admin"), Handler("setCustomClaims")>>),
    Route("POST", "/user/:uid/revoke",
          <<Handler("requireAuth"), RequireRole("admin"), Handler("revokeTokens")>>)>>

\* the routes in registration order
authRouter ==
  <<Route("POST", "/session", <<Handler("createSession")>>),
    Route("GET", "/me", <<Handler("requireAuth"), Handler("getMe")>>),
    Route("GET", "/users",
          <<Handler("requireAuth"), RequireRole("admin"), Handler("listUsers")>>),
    Route("POST", "/user",
          <<Handler("requireAuth"), RequireRole("admin"), Handler("createUser")>>),
    Route("GET", "/user/:uid",
          <<Handler("requireAuth"), RequireRole("admin"), Handler("getUserByUid")>>),
    Route("PUT", "/user/:uid",
          <<Handler("requireAuth"), RequireRole("admin"), Handler("updateUser")>>),
    Route("DELETE", "/user/:uid",
          <<Handler("requireAuth"), RequireRole("admin"), Handler("deleteUser")>>),
    Route("POST", "/user/:uid/claims",
          <<Handler("requireAuth"), RequireRole("admin"), Handler("setCustomClaims")>>),
    Route("POST", "/user/:uid/revoke",
          <<Handler("requireAuth"), RequireRole("admin"), Handler("revokeTokens")>>)>>

\* the chain of the first route registered for the request's verb and path
Chain(r) ==
  LET hits == {i \in 1..Len(authRouter) :
                 authRouter[i].method = r.method /\ authRouter[i].path = r.path}
  IN authRouter[CHOOSE i \in hits : \A j \in hits : i <= j].chain

NoCall == [op |-> "none", args |-> <<>>]

\* the requests that arrive while another request is suspended on an await
Overtaking ==
  {Request("DELETE", "/user/:uid", Str("u2"), Chars(BearerPrefix \o <<"a">>), NoBody, NoBody),
   Request("GET", "/user/:uid", Str("u2"), Chars(BearerPrefix \o <<"a">>), NoBody, NoBody),
   Request("POST", "/user/:uid/revoke", Str("u2"), Chars(BearerPrefix \o <<"a">>),
           NoBody, NoBody),
   Request("POST", "/user/:uid/claims", Str("u2"), Chars(BearerPrefix \o <<"a">>),
           [claims |-> Obj([admin |-> Bool(TRUE)])], NoBody),
   Request("PUT", "/user/:uid", Str("u2"), Chars(BearerPrefix \o <<"a">>),
           [disabled |-> Bool(TRUE)], NoBody),
   Request("POST", "/user", Undefined, Chars(BearerPrefix \o <<"a">>),
           [email |-> Str("e3"), password |-> Str("secret")], NoBody),
   Request("GET", "/me", Undefined, Chars(BearerPrefix \o <<"b">>), NoBody, NoBody),
   Request("GET", "/users", Undefined, Undefined, NoBody, NoBody)}

NoRequest == Request("NONE", "/", Undefined, Undefined, NoBody, NoBody)

\* the handler the request is in
Current == Chain(req)[idx]

\* res.status(status).json(body)
Send(status, body) ==
  res' = Append(res, [status |-> status, body |-> Obj(body), by |-> Current.h])

\* the handler returns without calling next
Finish == pc' = "done" /\ pending' = NoCall /\ UNCHANGED <<idx, nexts>>

\* the handler suspends on a call of the service
Await(op, args) ==
  /\ pc' = "await"
  /\ pending' = [op |-> op, args |-> args]
  /\ calls' = Append(calls, [op |-> op, args |-> args])
  /\ UNCHANGED <<idx, nexts, res>>

\* next(): control passes to the following handler of the chain
CallNext ==
  /\ nexts' = Append(nexts, Current.h)
  /\ idx' = idx + 1
  /\ pc' = "run"
  /\ pending' = NoCall

\* the provider's answer takes effect at the provider
Settle(o) ==
  /\ users' = o.users
  /\ revoked' = o.revoked
  /\ outcomes' = Append(outcomes, [ok |-> o.ok, value |-> o.value])

\* a request reaches the router
\* the request in progress, as it stands while it is suspended
Context ==
  [req |-> req, reqUser |-> reqUser, idx |-> idx, pc |-> pc, pending |-> pending,
   res |-> res, nexts |-> nexts, calls |-> calls, outcomes |-> outcomes,
   arrived |-> arrived]

\* answeredRevoke once the response of the request in progress is out
Answered ==
  IF pc = "done" /\ req.path = "/user/:uid/revoke" /\ Len(res) = 1 /\ res[1].status = 200
  THEN answeredRevoke \cup {req.uid.v}
  ELSE answeredRevoke

\* parked without its i-th element
Unparked(i) == SubSeq(parked, 1, i - 1) \o SubSeq(parked, i + 1, Len(parked))

\* a request arrives and its chain starts: when no request is in progress, or
\* while the one in progress is suspended on an await
Receive(r) ==
  /\ pc \in {"idle", "await", "done"}
  /\ pc = "await" => r \in Overtaking
  /\ nreq < MaxRequests
  /\ parked' = IF pc = "await" THEN Append(parked, Context) ELSE parked
  /\ req' = r
  /\ reqUser' = Undefined
  /\ idx' = 1
  /\ pc' = "run"
  /\ pending' = NoCall
  /\ res' = <<>>
  /\ nexts' = <<>>
  /\ calls' = <<>>
  /\ outcomes' = <<>>
  /\ nreq' = nreq + 1
  /\ answeredRevoke' = Answered
  /\ arrived' = Answered
  /\ UNCHANGED <<users, revoked>>
  /\ UNCHANGED <<fsVars, svcVars, appVars>>

\* the event loop turns to a suspended request: the one in progress, if any,
\* is itself suspended on an await and takes its place
Resume(i) ==
  /\ pc \in {"idle", "await"}
  /\ i \in 1..Len(parked)
  /\ parked' = IF pc = "await" THEN [parked EXCEPT ![i] = Context] ELSE Unparked(i)
  /\ req' = parked[i].req
  /\ reqUser' = parked[i].reqUser
  /\ idx' = parked[i].idx
  /\ pc' = parked[i].pc
  /\ pending' = parked[i].pending
  /\ res' = parked[i].res
  /\ nexts' = parked[i].nexts
  /\ calls' = parked[i].calls
  /\ outcomes' = parked[i].outcomes
  /\ arrived' = parked[i].arrived
  /\ UNCHANGED <<users, revoked, nreq, answeredRevoke>>
  /\ UNCHANGED <<fsVars, svcVars, appVars>>

Release ==
  /\ pc = "done"
  /\ req' = NoRequest
  /\ reqUser' = Undefined
  /\ idx' = 0
  /\ pc' = "idle"
  /\ pending' = NoCall
  /\ res' = <<>>
  /\ nexts' = <<>>
  /\ calls' = <<>>
  /\ outcomes' = <<>>
  /\ answeredRevoke' = Answered
  /\ arrived' = {}
  /\ UNCHANGED <<users, revoked, nreq, parked>>
  /\ UNCHANGED <<fsVars, svcVars, appVars>>

(* ----------------------------------------------------------------------- *)
(* middleware/auth                                                         *)
(* ----------------------------------------------------------------------- *)

\* requireAuth verifying without the revocation check
requireAuth_unchecked ==
  /\ pc = "run" /\ Current.h = "requireAuth"
  /\ LET header == req.authorization
     IN IF ~(header # Undefined /\ StartsWith(header.v, BearerPrefix))
        THEN /\ Send(401, [error |-> AuthError.NO_TOKEN_PROVIDED.message])
             /\ Finish
             /\ UNCHANGED calls
        ELSE Await("verifyIdToken", <<At(Split(header.v, BearerPrefix), 1), Bool(FALSE)>>)
  /\ UNCHANGED <<users, revoked, outcomes, req, reqUser, nreq, answeredRevoke, arrived, parked>>
  /\ UNCHANGED <<fsVars, svcVars, appVars>>

\* requireAuth up to the await of verifyIdToken
requireAuth ==
  /\ pc = "run" /\ Current.h = "requireAuth"
  /\ LET header == req.authorization
     IN IF ~(header # Undefined /\ StartsWith(header.v, BearerPrefix))
        THEN /\ Send(401, [error |-> AuthError.NO_TOKEN_PROVIDED.message])
             /\ Finish
             /\ UNCHANGED calls
        ELSE Await("verifyIdToken", <<At(Split(header.v, BearerPrefix), 1), Bool(TRUE)>>)
  /\ UNCHANGED <<users, revoked, outcomes, req, reqUser, nreq, answeredRevoke, arrived, parked>>
  /\ UNCHANGED <<fsVars, svcVars, appVars>>

\* requireAuth whose catch block lets the request through
requireAuth_settled_through ==
  /\ pc = "await" /\ Current.h = "requireAuth"
  /\ \E o \in authService_verifyIdToken(pending.args[1], pending.args[2].v) :
       /\ Settle(o)
       /\ IF o.ok
          THEN /\ reqUser' = o.value
               /\ CallNext
               /\ UNCHANGED res
          ELSE /\ Send(AuthError.INVALID_TOKEN.status,
                       [error |-> AuthError.INVALID_TOKEN.message])
               /\ CallNext
               /\ UNCHANGED reqUser
  /\ UNCHANGED <<req, calls, nreq, answeredRevoke, arrived, parked>>
  /\ UNCHANGED <<fsVars, svcVars, appVars>>

\* requireAuth from the settling of verifyIdToken on
requireAuth_settled ==
  /\ pc = "await" /\ Current.h = "requireAuth"
  /\ \E o \in authService_verifyIdToken(pending.args[1], pending.args[2].v) :
       /\ Settle(o)
       /\ IF o.ok
          THEN /\ reqUser' = o.value
               /\ CallNext
               /\ UNCHANGED res
          ELSE /\ Send(AuthError.INVALID_TOKEN.status,
                       [error |-> AuthError.INVALID_TOKEN.message])
               /\ Finish
               /\ UNCHANGED reqUser
  /\ UNCHANGED <<req, calls, nreq, answeredRevoke, arrived, parked>>
  /\ UNCHANGED <<fsVars, svcVars, appVars>>

\* requireRole that sends 403 and goes on to the next handler
requireRole_noreturn ==
  /\ pc = "run" /\ Current.h = "requireRole"
  /\ LET role == Current.role
         errorObj == AuthError.UNAUTHORIZED
     IN IF ~(reqUser # Undefined /\ Truthy(Get(reqUser.v, role)))
        THEN /\ Send(errorObj.status, [error |-> errorObj.message])
             /\ CallNext
        ELSE /\ CallNext
             /\ UNCHANGED res
  /\ UNCHANGED <<users, revoked, outcomes, req, reqUser, calls, nreq, answeredRevoke, arrived, parked>>
  /\ UNCHANGED <<fsVars, svcVars, appVars>>

\* requireRole deciding on the custom claims the provider holds now
requireRole_live ==
  /\ pc = "run" /\ Current.h = "requireRole"
  /\ LET role == Current.role
         errorObj == AuthError.UNAUTHORIZED
         stored == IF reqUser # Undefined /\ users[reqUser.v.uid.v].exists
                   THEN Coalesce(users[reqUser.v.uid.v].customClaims, Obj(EmptyObj))
                   ELSE Obj(EmptyObj)
     IN IF ~Truthy(Get(stored.v, role))
        THEN /\ Send(errorObj.status, [error |-> errorObj.message])
             /\ Finish
        ELSE /\ CallNext
             /\ UNCHANGED res
  /\ UNCHANGED <<users, revoked, outcomes, req, reqUser, calls, nreq, answeredRevoke, arrived, parked>>
  /\ UNCHANGED <<fsVars, svcVars, appVars>>

\* the middleware requireRole(role) returns
requireRole ==
  /\ pc = "run" /\ Current.h = "requireRole"
  /\ LET role == Current.role
         errorObj == AuthError.UNAUTHORIZED
         status == IF "status" \in DOMAIN errorObj THEN errorObj.status ELSE 403
         message == IF "message" \in DOMAIN errorObj THEN errorObj.message
                    ELSE Str("Unauthorized")
     IN IF ~(reqUser # Undefined /\ Truthy(Get(reqUser.v, role)))
        THEN /\ Send(status, [error |-> message])
             /\ Finish
        ELSE /\ CallNext
             /\ UNCHANGED res
  /\ UNCHANGED <<users, revoked, outcomes, req, reqUser, calls, nreq, answeredRevoke, arrived, parked>>
  /\ UNCHANGED <<fsVars, svcVars, appVars>>

(* ----------------------------------------------------------------------- *)
(* controllers/authController                                              *)
(* ----------------------------------------------------------------------- *)

Digits == <<"0", "1", "2", "3", "4", "5", "6", "7", "8", "9">>

IsDigit(c) == \E d \in 1..Len(Digits) : Digits[d] = c

DigitValue(c) == (CHOOSE d \in 1..Len(Digits) : Digits[d] = c) - 1

\* a character the string syntax cannot hold is written as its code point:
\* the spaces U+2000 to U+200A, line separator, paragraph separator, narrow
\* no-break space, medium mathematical space, ideographic space
CodePointSpaces ==
  {"U+2000", "U+2001", "U+2002", "U+2003", "U+2004", "U+2005", "U+2006", "U+2007",
   "U+2008", "U+2009", "U+200A", "U+2028", "U+2029", "U+202F", "U+205F", "U+3000"}

\* StrWhiteSpaceChar: space, tab, line feed, vertical tab, form feed, carriage
\* return, no-break space, ogham space mark, byte order mark, and the spaces
\* and separators written as code points
WhiteSpace ==
  {" ", "\t", "\n", "", "\f", "\r", " ", " ", "﻿"}
  \cup CodePointSpaces

RECURSIVE SkipSpaces(_)
\* the string without its leading white space
SkipSpaces(s) == IF Len(s) > 0 /\ Head(s) \in WhiteSpace THEN SkipSpaces(Tail(s)) ELSE s

RECURSIVE ReadDigits(_, _)
\* the value of the leading run of digits of s, continuing the value acc
ReadDigits(s, acc) ==
  IF Len(s) > 0 /\ IsDigit(Head(s)) THEN ReadDigits(Tail(s), 10 * acc + DigitValue(Head(s)))
  ELSE acc

HexDigits ==
  <<<<"0">>, <<"1">>, <<"2">>, <<"3">>, <<"4">>, <<"5">>, <<"6">>, <<"7">>, <<"8">>, <<"9">>,
    <<"a", "A">>, <<"b", "B">>, <<"c", "C">>, <<"d", "D">>, <<"e", "E">>, <<"f", "F">>>>

IsHexDigit(c) == \E d \in 1..Len(HexDigits) : \E k \in 1..Len(HexDigits[d]) : HexDigits[d][k] = c

HexDigitValue(c) ==
  (CHOOSE d \in 1..Len(HexDigits) : \E k \in 1..Len(HexDigits[d]) : HexDigits[d][k] = c) - 1

RECURSIVE ReadHexDigits(_, _)
\* the value of the leading run of hexadecimal digits of s, continuing acc
ReadHexDigits(s, acc) ==
  IF Len(s) > 0 /\ IsHexDigit(Head(s))
  THEN ReadHexDigits(Tail(s), 16 * acc + HexDigitValue(Head(s)))
  ELSE acc

\* parseInt(string) without a radix: leading white space, a sign, then the
\* leading digits, in base 16 after a 0x or 0X prefix and in base 10 otherwise
ParseInt(s) ==
  LET body == SkipSpaces(s)
      signed == Len(body) > 0 /\ Head(body) \in {"+", "-"}
      unsigned == IF signed THEN Tail(body) ELSE body
      hex == Len(unsigned) >= 2 /\ unsigned[1] = "0" /\ unsigned[2] \in {"x", "X"}
      digits == IF hex THEN Tail(Tail(unsigned)) ELSE unsigned
      known == Len(digits) > 0 /\ (IF hex THEN IsHexDigit(Head(digits)) ELSE IsDigit(Head(digits)))
      magnitude == IF hex THEN ReadHexDigits(digits, 0) ELSE ReadDigits(digits, 0)
  IN IF ~known THEN NaN
     ELSE IF signed /\ Head(body) = "-" THEN Num(0 - magnitude)
     ELSE Num(magnitude)

\* the code property of a caught error
CodeOf(error) == Get(error.v, "code")

\* the handler is left untouched by the rest of the request's state
ControllerFrame == UNCHANGED <<req, reqUser, nreq, answeredRevoke, arrived, parked>> /\ UNCHANGED <<fsVars, svcVars, appVars>>

\* GET /auth/me, up to the await
getMe ==
  /\ pc = "run" /\ Current.h = "getMe"
  /\ IF ~Truthy(reqUser)
     THEN /\ Send(AuthError.NO_TOKEN_PROVIDED.status,
                  [error |-> AuthError.NO_TOKEN_PROVIDED.message])
          /\ Finish
          /\ UNCHANGED calls
     ELSE Await("getUserByUid", <<Get(reqUser.v, "uid")>>)
  /\ UNCHANGED <<users, revoked, outcomes>>
  /\ ControllerFrame

getMe_settled ==
  /\ pc = "await" /\ Current.h = "getMe"
  /\ \E o \in authService_getUserByUid(pending.args[1]) :
       /\ Settle(o)
       /\ IF o.ok THEN Send(200, [user |-> o.value])
          ELSE Send(AuthError.USER_NOT_FOUND.status,
                    [error |-> AuthError.USER_NOT_FOUND.message])
  /\ Finish
  /\ UNCHANGED calls
  /\ ControllerFrame

\* GET /auth/user/:uid
getUserByUid ==
  /\ pc = "run" /\ Current.h = "getUserByUid"
  /\ Await("getUserByUid", <<req.uid>>)
  /\ UNCHANGED <<users, revoked, outcomes>>
  /\ ControllerFrame

getUserByUid_settled ==
  /\ pc = "await" /\ Current.h = "getUserByUid"
  /\ \E o \in authService_getUserByUid(pending.args[1]) :
       /\ Settle(o)
       /\ IF o.ok THEN Send(200, [user |-> o.value])
          ELSE Send(AuthError.USER_NOT_FOUND.status,
                    [error |-> AuthError.USER_NOT_FOUND.message])
  /\ Finish
  /\ UNCHANGED calls
  /\ ControllerFrame

\* createUser refusing the body only when both fields are missing
createUser_both ==
  /\ pc = "run" /\ Current.h = "createUser"
  /\ LET email == Get(req.body, "email")
         password == Get(req.body, "password")
         displayName == Get(req.body, "displayName")
     IN IF ~Truthy(email) /\ ~Truthy(password)
        THEN /\ Send(400, [error |-> Str("Email and password are required")])
             /\ Finish
             /\ UNCHANGED calls
        ELSE Await("createUser",
                   <<[email |-> email, password |-> password, displayName |-> displayName]>>)
  /\ UNCHANGED <<users, revoked, outcomes>>
  /\ ControllerFrame

\* POST /auth/user
createUser ==
  /\ pc = "run" /\ Current.h = "createUser"
  /\ LET email == Get(req.body, "email")
         password == Get(req.body, "password")
         displayName == Get(req.body, "displayName")
     IN IF ~Truthy(email) \/ ~Truthy(password)
        THEN /\ Send(400, [error |-> Str("Email and password are required")])
             /\ Finish
             /\ UNCHANGED calls
        ELSE Await("createUser",
                   <<[email |-> email, password |-> password, displayName |-> displayName]>>)
  /\ UNCHANGED <<users, revoked, outcomes>>
  /\ ControllerFrame

\* the mapping without its last line: an unmatched code gets the weak-password answer
createUserError_nofallback(error) ==
  LET code == CodeOf(error)
  IN IF code = Str("auth/email-already-exists")
       THEN [status |-> AuthError.USER_ALREADY_EXISTS.status,
             body |-> Obj([error |-> AuthError.USER_ALREADY_EXISTS.message])]
     ELSE IF code = Str("auth/invalid-email")
       THEN [status |-> AuthError.INVALID_EMAIL.status,
             body |-> Obj([error |-> AuthError.INVALID_EMAIL.message])]
     ELSE [status |-> AuthError.WEAK_PASSWORD.status,
           body |-> Obj([error |-> AuthError.WEAK_PASSWORD.message])]

\* the mapping with the constants of the first two codes exchanged
createUserError_swapped(error) ==
  LET code == CodeOf(error)
  IN IF code = Str("auth/email-already-exists")
       THEN [status |-> AuthError.INVALID_EMAIL.status,
             body |-> Obj([error |-> AuthError.INVALID_EMAIL.message])]
     ELSE IF code = Str("auth/invalid-email")
       THEN [status |-> AuthError.USER_ALREADY_EXISTS.status,
             body |-> Obj([error |-> AuthError.USER_ALREADY_EXISTS.message])]
     ELSE IF code = Str("auth/weak-password")
       THEN [status |-> AuthError.WEAK_PASSWORD.status,
             body |-> Obj([error |-> AuthError.WEAK_PASSWORD.message])]
     ELSE [status |-> 500, body |-> Obj([error |-> Str("Failed to create user")])]

\* the response createUser maps a caught error to
createUserError(error) ==
  LET code == CodeOf(error)
  IN IF code = Str("auth/email-already-exists")
       THEN [status |-> AuthError.USER_ALREADY_EXISTS.status,
             body |-> Obj([error |-> AuthError.USER_ALREADY_EXISTS.message])]
     ELSE IF code = Str("auth/invalid-email")
       THEN [status |-> AuthError.INVALID_EMAIL.status,
             body |-> Obj([error |-> AuthError.INVALID_EMAIL.message])]
     ELSE IF code = Str("auth/weak-password")
       THEN [status |-> AuthError.WEAK_PASSWORD.status,
             body |-> Obj([error |-> AuthError.WEAK_PASSWORD.message])]
     ELSE [status |-> 500, body |-> Obj([error |-> Str("Failed to create user")])]

createUser_settled ==
  /\ pc = "await" /\ Current.h = "createUser"
  /\ \E o \in authService_createUser(pending.args[1]) :
       /\ Settle(o)
       /\ IF o.ok THEN Send(201, [user |-> o.value])
          ELSE res' = Append(res, createUserError(o.value) @@ [by |-> Current.h])
  /\ Finish
  /\ UNCHANGED calls
  /\ ControllerFrame

\* PUT /auth/user/:uid
updateUser ==
  /\ pc = "run" /\ Current.h = "updateUser"
  /\ Await("updateUser",
           <<req.uid,
             [email |-> Get(req.body, "email"),
              password |-> Get(req.body, "password"),
              displayName |-> Get(req.body, "displayName"),
              photoURL |-> Get(req.body, "photoURL"),
              disabled |-> Get(req.body, "disabled")]>>)
  /\ UNCHANGED <<users, revoked, outcomes>>
  /\ ControllerFrame

updateUser_settled ==
  /\ pc = "await" /\ Current.h = "updateUser"
  /\ \E o \in authService_updateUser(pending.args[1], pending.args[2]) :
       /\ Settle(o)
       /\ IF o.ok THEN Send(200, [user |-> o.value])
          ELSE Send(AuthError.USER_NOT_FOUND.status,
                    [error |-> AuthError.USER_NOT_FOUND.message])
  /\ Finish
  /\ UNCHANGED calls
  /\ ControllerFrame

\* DELETE /auth/user/:uid
deleteUser ==
  /\ pc = "run" /\ Current.h = "deleteUser"
  /\ Await("deleteUser", <<req.uid>>)
  /\ UNCHANGED <<users, revoked, outcomes>>
  /\ ControllerFrame

deleteUser_settled ==
  /\ pc = "await" /\ Current.h = "deleteUser"
  /\ \E o \in authService_deleteUser(pending.args[1]) :
       /\ Settle(o)
       /\ IF o.ok THEN Send(200, [message |-> Str("User deleted successfully")])
          ELSE Send(AuthError.USER_NOT_FOUND.status,
                    [error |-> AuthError.USER_NOT_FOUND.message])
  /\ Finish
  /\ UNCHANGED calls
  /\ ControllerFrame

\* GET /auth/users
listUsers ==
  /\ pc = "run" /\ Current.h = "listUsers"
  /\ LET maxResults == IF Truthy(Get(req.query, "maxResults"))
                         THEN ParseInt(Get(req.query, "maxResults").v)
                       ELSE Num(100)
         pageToken == Get(req.query, "pageToken")
     IN Await("listUsers", <<[maxResults |-> maxResults, pageToken |-> pageToken]>>)
  /\ UNCHANGED <<users, revoked, outcomes>>
  /\ ControllerFrame

listUsers_settled ==
  /\ pc = "await" /\ Current.h = "listUsers"
  /\ \E o \in authService_listUsers(pending.args[1]) :
       /\ Settle(o)
       /\ IF o.ok THEN res' = Append(res, [status |-> 200, body |-> o.value, by |-> Current.h])
          ELSE Send(500, [error |-> Str("Failed to list users")])
  /\ Finish
  /\ UNCHANGED calls
  /\ ControllerFrame

\* setCustomClaims accepting every truthy claims value
setCustomClaims_truthy ==
  /\ pc = "run" /\ Current.h = "setCustomClaims"
  /\ LET claims == Get(req.body, "claims")
     IN IF ~Truthy(claims)
        THEN /\ Send(400, [error |-> Str("Claims must be a valid object")])
             /\ Finish
             /\ UNCHANGED calls
        ELSE Await("setCustomClaims", <<req.uid, claims>>)
  /\ UNCHANGED <<users, revoked, outcomes>>
  /\ ControllerFrame

\* POST /auth/user/:uid/claims
setCustomClaims ==
  /\ pc = "run" /\ Current.h = "setCustomClaims"
  /\ LET claims == Get(req.body, "claims")
     IN IF ~Truthy(claims) \/ TypeOf(claims) # "object"
        THEN /\ Send(400, [error |-> Str("Claims must be a valid object")])
             /\ Finish
             /\ UNCHANGED calls
        ELSE Await("setCustomClaims", <<req.uid, claims>>)
  /\ UNCHANGED <<users, revoked, outcomes>>
  /\ ControllerFrame

setCustomClaims_settled ==
  /\ pc = "await" /\ Current.h = "setCustomClaims"
  /\ \E o \in authService_setCustomClaims(pending.args[1], pending.args[2]) :
       /\ Settle(o)
       /\ IF o.ok THEN Send(200, [message |-> Str("Custom claims updated successfully")])
          ELSE Send(AuthError.USER_NOT_FOUND.status,
                    [error |-> AuthError.USER_NOT_FOUND.message])
  /\ Finish
  /\ UNCHANGED calls
  /\ ControllerFrame

\* Default to 5 days if not specified
DefaultSessionMs == 5 * 24 * 60 * 60 * 1000

\* createSession taking the default for every falsy expiresIn
createSession_falsy ==
  /\ pc = "run" /\ Current.h = "createSession"
  /\ LET idToken == Get(req.body, "idToken")
         expiresIn == Get(req.body, "expiresIn")
         duration == IF Truthy(expiresIn) THEN expiresIn ELSE Num(DefaultSessionMs)
     IN IF ~Truthy(idToken)
        THEN /\ Send(401, [error |-> AuthError.NO_TOKEN_PROVIDED.message])
             /\ Finish
             /\ UNCHANGED calls
        ELSE Await("createSessionCookie", <<idToken, duration>>)
  /\ UNCHANGED <<users, revoked, outcomes>>
  /\ ControllerFrame

\* POST /auth/session
createSession ==
  /\ pc = "run" /\ Current.h = "createSession"
  /\ LET idToken == Get(req.body, "idToken")
         expiresIn == Get(req.body, "expiresIn")
         duration == IF TypeOf(expiresIn) = "number" THEN expiresIn ELSE Num(DefaultSessionMs)
     IN IF ~Truthy(idToken)
        THEN /\ Send(401, [error |-> AuthError.NO_TOKEN_PROVIDED.message])
             /\ Finish
             /\ UNCHANGED calls
        ELSE Await("createSessionCookie", <<idToken, duration>>)
  /\ UNCHANGED <<users, revoked, outcomes>>
  /\ ControllerFrame

createSession_settled ==
  /\ pc = "await" /\ Current.h = "createSession"
  /\ \E o \in authService_createSessionCookie(pending.args[1], pending.args[2]) :
       /\ Settle(o)
       /\ IF o.ok THEN Send(200, [sessionCookie |-> o.value])
          ELSE Send(AuthError.INVALID_TOKEN.status,
                    [error |-> AuthError.INVALID_TOKEN.message])
  /\ Finish
  /\ UNCHANGED calls
  /\ ControllerFrame

\* POST /auth/user/:uid/revoke
revokeTokens ==
  /\ pc = "run" /\ Current.h = "revokeTokens"
  /\ Await("revokeRefreshTokens", <<req.uid>>)
  /\ UNCHANGED <<users, revoked, outcomes>>
  /\ ControllerFrame

revokeTokens_settled ==
  /\ pc = "await" /\ Current.h = "revokeTokens"
  /\ \E o \in authService_revokeRefreshTokens(pending.args[1]) :
       /\ Settle(o)
       /\ IF o.ok THEN Send(200, [message |-> Str("Refresh tokens revoked successfully")])
          ELSE Send(AuthError.USER_NOT_FOUND.status,
                    [error |-> AuthError.USER_NOT_FOUND.message])
  /\ Finish
  /\ UNCHANGED calls
  /\ ControllerFrame

(* ----------------------------------------------------------------------- *)
(* The auth router handling requests one after the other                   *)
(* ----------------------------------------------------------------------- *)

\* the callers of the custom-claims service that may run at the same time
Callers == {1, 2}

NoSvcCall == [op |-> "none", uid |-> Undefined, claims |-> Undefined, before |-> Undefined]

SvcIdle ==
  /\ svcPc = [p \in Callers |-> "idle"]
  /\ svcCall = [p \in Callers |-> NoSvcCall]
  /\ svcExisting = [p \in Callers |-> Undefined]
  /\ svcLog = <<>>

\* a request as it arrives at the application: the first segment of its URL
\* ("" when the URL has the router's path only) and the rest
AppRequest(mount, r) == [mount |-> mount, r |-> r]

NoAppRequest == AppRequest("", NoRequest)

AppIdle ==
  /\ appReq = NoAppRequest
  /\ appPc = "idle"
  /\ appIdx = 0
  /\ appRes = <<>>
  /\ appCount = 0

FsIdle ==
  /\ docs = [d \in {} |-> NoBody]
  /\ fsOp = [op |-> "none"]
  /\ fsPc = "idle"
  /\ fsReads = <<>>
  /\ fsOut = [kind |-> "none"]
  /\ fsCount = 0
  /\ fsSeen = <<>>
  /\ fsWrites = <<>>
  /\ fsWriting = <<>>

HttpIdle ==
  /\ users = InitUsers
  /\ revoked = {}
  /\ req = NoRequest
  /\ reqUser = Undefined
  /\ idx = 0
  /\ pc = "idle"
  /\ pending = NoCall
  /\ res = <<>>
  /\ nexts = <<>>
  /\ calls = <<>>
  /\ outcomes = <<>>
  /\ nreq = 0
  /\ answeredRevoke = {}
  /\ arrived = {}
  /\ parked = <<>>

Init == HttpIdle /\ FsIdle /\ SvcIdle /\ AppIdle

Next ==
  \/ \E r \in Requests : Receive(r)
  \/ \E i \in 1..MaxRequests : Resume(i)
  \/ Release
  \/ requireAuth
  \/ requireAuth_settled
  \/ requireRole
  \/ getMe
  \/ getMe_settled
  \/ getUserByUid
  \/ getUserByUid_settled
  \/ createUser
  \/ createUser_settled
  \/ updateUser
  \/ updateUser_settled
  \/ deleteUser
  \/ deleteUser_settled
  \/ listUsers
  \/ listUsers_settled
  \/ setCustomClaims
  \/ setCustomClaims_settled
  \/ createSession
  \/ createSession_settled
  \/ revokeTokens
  \/ revokeTokens_settled

Spec == Init /\ [][Next]_vars

\* a request reaches the router in a run of at most MaxLiveRequests requests;
\* every request after the first is one of Overtaking
ReceiveLive(r) ==
  /\ nreq < MaxLiveRequests
  /\ nreq > 0 => r \in Overtaking
  /\ Receive(r)

\* one step of a middleware or a controller of the request in progress
Handle ==
  \/ requireAuth
  \/ requireAuth_settled
  \/ requireRole
  \/ getMe
  \/ getMe_settled
  \/ getUserByUid
  \/ getUserByUid_settled
  \/ createUser
  \/ createUser_settled
  \/ updateUser
  \/ updateUser_settled
  \/ deleteUser
  \/ deleteUser_settled
  \/ listUsers
  \/ listUsers_settled
  \/ setCustomClaims
  \/ setCustomClaims_settled
  \/ createSession
  \/ createSession_settled
  \/ revokeTokens
  \/ revokeTokens_settled

NextLive ==
  \/ \E r \in Requests : ReceiveLive(r)
  \/ \E i \in 1..MaxLiveRequests : Resume(i)
  \/ Release
  \/ requireAuth
  \/ requireAuth_settled
  \/ requireRole
  \/ getMe
  \/ getMe_settled
  \/ getUserByUid
  \/ getUserByUid_settled
  \/ createUser
  \/ createUser_settled
  \/ updateUser
  \/ updateUser_settled
  \/ deleteUser
  \/ deleteUser_settled
  \/ listUsers
  \/ listUsers_settled
  \/ setCustomClaims
  \/ setCustomClaims_settled
  \/ createSession
  \/ createSession_settled
  \/ revokeTokens
  \/ revokeTokens_settled

\* the event loop runs every handler that is ready, every provider call a
\* handler awaits settles, and the continuation of a settled call is run however
\* often the loop turns to other requests
SpecLive == Init /\ [][NextLive]_vars /\ WF_vars(NextLive) /\ SF_vars(Handle)

(* ----------------------------------------------------------------------- *)
(* Document database (firebase-admin firestore), as the wrapper calls it   *)
(* ----------------------------------------------------------------------- *)

\* document identifiers in the database's identifier order
DocIdOrder == <<"d1", "d2", "d3", "d4">>

DocIds == {DocIdOrder[i] : i \in 1..MaxDocs}

IdRank(id) == CHOOSE i \in 1..Len(DocIdOrder) : DocIdOrder[i] = id

\* stored document data: an ordering field and a field that is itself named id
DataSet ==
  {Present([rank |-> r, id |-> i]) :
     r \in {Undefined} \cup {Num(k) : k \in 1..MaxRank},
     i \in {Undefined, Str("x")}}

Collections == UNION {[S -> DataSet] : S \in SUBSET DocIds}

\* DocumentSnapshot of db.collection(path).doc(docId).get()
DocSnapshot(docId) ==
  IF docId \in DOMAIN docs
  THEN [exists |-> TRUE, id |-> docId, data |-> docs[docId]]
  ELSE [exists |-> FALSE, id |-> docId, data |-> NoBody]

\* one where(field, op, value) clause against stored data
Satisfies(data, f) ==
  /\ f.field \in DOMAIN data
  /\ data[f.field].t = f.value.t
  /\ CASE f.op = "==" -> data[f.field] = f.value
       [] f.op = ">=" -> data[f.field].v >= f.value.v
       [] f.op = "<" -> data[f.field].v < f.value.v
       [] OTHER -> FALSE

\* a composite Filter: Filter.or / Filter.and over where clauses
SatisfiesFilter(data, filter) ==
  IF filter.kind = "or" THEN \E i \in 1..Len(filter.filters) : Satisfies(data, filter.filters[i])
  ELSE \A i \in 1..Len(filter.filters) : Satisfies(data, filter.filters[i])

\* the clauses of a query, in the order the builder received them
Clauses(q, kind) == {i \in 1..Len(q) : q[i].c = kind}

ClauseOf(q, kind) == q[CHOOSE i \in Clauses(q, kind) : TRUE]

\* position of a document in the query's order: the orderBy field in the given
\* direction, ties by identifier in the same direction; by identifier alone
\* when there is no orderBy
Precedes(idA, dataA, idB, dataB, q) ==
  IF Clauses(q, "orderBy") = {} THEN IdRank(idA) < IdRank(idB)
  ELSE LET ob == ClauseOf(q, "orderBy")
           a == dataA[ob.field].v
           b == dataB[ob.field].v
       IN IF ob.direction = "desc"
          THEN a > b \/ (a = b /\ IdRank(idA) > IdRank(idB))
          ELSE a < b \/ (a = b /\ IdRank(idA) < IdRank(idB))

\* the documents a query selects, before limit
Selected(q) ==
  {d \in DOMAIN docs :
     /\ \A i \in Clauses(q, "where") : Satisfies(docs[d], q[i].filter)
     /\ \A i \in Clauses(q, "filter") : SatisfiesFilter(docs[d], q[i].filter)
     /\ \A i \in Clauses(q, "orderBy") : q[i].field \in DOMAIN docs[d]
     /\ \A i \in Clauses(q, "startAfter") :
          Precedes(q[i].cursor.id, q[i].cursor.data, d, docs[d], q)}

RECURSIVE InOrder(_, _)
\* a set of documents as the sequence the query's order puts them in
InOrder(S, q) ==
  IF S = {} THEN <<>>
  ELSE LET first == CHOOSE d \in S :
                      \A e \in S \ {d} : Precedes(d, docs[d], e, docs[e], q)
       IN <<first>> \o InOrder(S \ {first}, q)

\* QuerySnapshot.docs of query.get()
QueryDocs(q) ==
  LET all == InOrder(Selected(q), q)
      snaps == [k \in 1..Len(all) |-> DocSnapshot(all[k])]
  IN IF Clauses(q, "limit") = {} THEN snaps
     ELSE Take(snaps, ClauseOf(q, "limit").n)

\* the builder refuses a cursor document that lacks the orderBy field
CursorFits(q, cursor) ==
  \A i \in Clauses(q, "orderBy") : q[i].field \in DOMAIN cursor.data

\* identifiers the database may generate for a new document
AutoIds == {DocIdOrder[i] : i \in 1..(MaxDocs + 1)}

\* the collection c with document docId holding data
WithDoc(c, docId, data) ==
  [d \in (DOMAIN c) \cup {docId} |-> IF d = docId THEN data ELSE c[d]]

\* the collection c without document docId
WithoutDoc(c, docId) == [d \in (DOMAIN c) \ {docId} |-> c[d]]

Written(value, c) == [kind |-> "return", value |-> value, docs |-> c]

Refused(code, c) == [kind |-> "throw", value |-> code, docs |-> c]

\* CollectionReference.add(data) on collection c: a new document under a
\* generated identifier
db_add(c, data) ==
  {Written(Str(id), WithDoc(c, id, data)) : id \in AutoIds \ DOMAIN c}

\* DocumentReference.set(data, options) on collection c
db_set(c, docId, data, options) ==
  IF Truthy(options.merge) /\ docId \in DOMAIN c
  THEN Written(Str("WriteResult"), WithDoc(c, docId, Spread(c[docId], data)))
  ELSE Written(Str("WriteResult"), WithDoc(c, docId, data))

\* DocumentReference.update(data) on collection c: the document must exist
db_update(c, docId, data) ==
  IF docId \in DOMAIN c
  THEN Written(Str("WriteResult"), WithDoc(c, docId, Spread(c[docId], data)))
  ELSE Refused("not-found", c)

\* DocumentReference.delete() on collection c
db_delete(c, docId) == Written(Str("WriteResult"), WithoutDoc(c, docId))

\* one write made inside a transaction
db_write(c, w) ==
  CASE w.op = "set" -> db_set(c, w.docId, w.data, w.options)
    [] w.op = "update" -> db_update(c, w.docId, w.data)
    [] OTHER -> db_delete(c, w.docId)

RECURSIVE db_commit(_, _, _)
\* the writes of a transaction on collection c0 take effect together, or none
\* does
db_commit(c0, c, ws) ==
  IF ws = <<>> THEN Written(Str("WriteResult"), c)
  ELSE LET o == db_write(c, Head(ws))
       IN IF o.kind = "throw" THEN Refused(o.value, c0)
          ELSE db_commit(c0, o.docs, Tail(ws))

\* db.runTransaction(fn) on collection c: fn reads and writes against one
\* state of the database and its writes take effect together
db_runTransaction(c, fn) ==
  LET snap == IF fn.from \in DOMAIN c
              THEN [exists |-> TRUE, id |-> fn.from, data |-> c[fn.from]]
              ELSE [exists |-> FALSE, id |-> fn.from, data |-> NoBody]
      o == db_commit(c, c, fn.writes[snap.exists])
  IN IF o.kind = "throw" THEN o ELSE Written(Bool(snap.exists), o.docs)

(* ----------------------------------------------------------------------- *)
(* firestoreService                                                        *)
(* ----------------------------------------------------------------------- *)

\* Convert a QuerySnapshot into an array of documents, injecting the id.
snapshotToArray(snapshotDocs) ==
  [k \in 1..Len(snapshotDocs) |->
     Spread(snapshotDocs[k].data, [id |-> Str(snapshotDocs[k].id)])]

\* query.orderBy(options.orderBy, options.orderDirection ?? "asc") when asked for
WithOrderBy(q, options) ==
  IF Truthy(options.orderBy)
  THEN Append(q, [c |-> "orderBy", field |-> options.orderBy.v,
                  direction |-> IF options.orderDirection \in {Undefined, Null} THEN "asc"
                                ELSE options.orderDirection.v])
  ELSE q

\* query.limit(options.limit) when asked for
WithLimit(q, options) ==
  IF Truthy(options.limit) THEN Append(q, [c |-> "limit", n |-> options.limit.v]) ELSE q

RECURSIVE WithWhere(_, _)
\* for (const f of filters) query = query.where(f.field, f.op, f.value)
WithWhere(q, filters) ==
  IF Len(filters) = 0 THEN q
  ELSE WithWhere(Append(q, [c |-> "where", filter |-> Head(filters)]), Tail(filters))

ListOptionsSet ==
  {[limit |-> l, orderBy |-> ob, orderDirection |-> od, startAfterDocId |-> sa] :
     l \in {Undefined, Num(0), Num(1), Num(2)},
     ob \in {Undefined, Str(""), Str("rank")},
     od \in {Undefined, Str("asc"), Str("desc")},
     sa \in {Undefined, Str(""), Str("d9")} \cup {Str(d) : d \in DocIds}}

\* options of the calls that take no cursor
QueryOptionsSet ==
  {[limit |-> l, orderBy |-> ob, orderDirection |-> od, startAfterDocId |-> sa] :
     l \in {Undefined, Num(0), Num(1), Num(2)},
     ob \in {Undefined, Str("rank")},
     od \in {Undefined, Str("desc")},
     sa \in {Undefined, Str("d1")}}

\* options of the subcollection listings
SubListOptionsSet ==
  {[limit |-> l, orderBy |-> Undefined, orderDirection |-> Undefined, startAfterDocId |-> sa] :
     l \in {Undefined, Num(0), Num(1)},
     sa \in {Undefined, Str("d1"), Str("d9")}}

WhereFilters ==
  {[field |-> "rank", op |-> o, value |-> Num(k)] : o \in {"==", ">="}, k \in 1..MaxRank}

FilterLists ==
  {<<>>, <<[field |-> "rank", op |-> "<", value |-> Num(MaxRank)],
           [field |-> "id", op |-> "==", value |-> Str("x")]>>}
  \cup {<<f>> : f \in WhereFilters}

CompositeFilters ==
  {[kind |-> k, filters |-> <<[field |-> "rank", op |-> ">=", value |-> Num(MaxRank)],
                              [field |-> "id", op |-> "==", value |-> Str("x")]>>] :
     k \in {"or", "and"}}

FsCall(op, docId, filters, filter, options) ==
  [op |-> op, docId |-> docId, filters |-> filters, filter |-> filter, options |-> options]

NoOptions ==
  [limit |-> Undefined, orderBy |-> Undefined, orderDirection |-> Undefined,
   startAfterDocId |-> Undefined]

NoFilter == [kind |-> "and", filters |-> <<>>]

Returned(v) == [kind |-> "return", value |-> v]

Thrown(m) == [kind |-> "throw", value |-> m]

DocRead(docId) == [read |-> "doc", docId |-> docId, q |-> <<>>]

QueryRead(q) == [read |-> "query", docId |-> "_", q |-> q]

FsFrame == UNCHANGED <<docs, fsWrites, fsWriting>> /\ UNCHANGED <<httpVars, svcVars, appVars>>

\* firestoreService.get up to the await of the document read
get(docId) ==
  /\ fsPc = "idle"
  /\ fsCount < MaxCalls
  /\ fsCount' = fsCount + 1
  /\ fsOp' = FsCall("get", docId, <<>>, NoFilter, NoOptions)
  /\ fsReads' = <<DocRead(docId)>>
  /\ fsPc' = "doc"
  /\ fsOut' = [kind |-> "none"]
  /\ fsSeen' = <<>>
  /\ FsFrame

get_settled ==
  /\ UNCHANGED fsCount
  /\ fsSeen' = Append(fsSeen, docs)
  /\ fsPc = "doc" /\ fsOp.op = "get"
  /\ LET snap == DocSnapshot(fsOp.docId)
     IN fsOut' = IF ~snap.exists THEN Returned(Null)
                 ELSE Returned(Obj(Spread(snap.data, [id |-> Str(snap.id)])))
  /\ fsPc' = "done"
  /\ UNCHANGED <<fsOp, fsReads>>
  /\ FsFrame

\* firestoreService.list up to its first await
list(options) ==
  /\ fsPc = "idle"
  /\ fsCount < MaxCalls
  /\ fsCount' = fsCount + 1
  /\ fsOp' = FsCall("list", "_", <<>>, NoFilter, options)
  /\ fsOut' = [kind |-> "none"]
  /\ fsSeen' = <<>>
  /\ LET q == WithOrderBy(<<>>, options)
     IN IF Truthy(options.startAfterDocId)
        THEN /\ fsReads' = <<DocRead(options.startAfterDocId.v)>>
             /\ fsPc' = "cursor"
        ELSE /\ fsReads' = <<QueryRead(WithLimit(q, options))>>
             /\ fsPc' = "query"
  /\ FsFrame

\* list that drops a cursor whose document does not exist
list_cursor_lenient ==
  /\ UNCHANGED fsCount
  /\ fsSeen' = Append(fsSeen, docs)
  /\ fsPc = "cursor" /\ fsOp.op \in {"list", "listSubcollection"}
  /\ LET options == fsOp.options
         q == WithOrderBy(<<>>, options)
         cursor == DocSnapshot(options.startAfterDocId.v)
     IN IF ~cursor.exists
        THEN /\ fsReads' = Append(fsReads, QueryRead(WithLimit(q, options)))
             /\ fsPc' = "query"
             /\ UNCHANGED fsOut
        ELSE IF ~CursorFits(q, cursor)
        THEN /\ fsOut' = Thrown("provider")
             /\ fsPc' = "done"
             /\ UNCHANGED fsReads
        ELSE /\ fsReads' = Append(fsReads,
                 QueryRead(WithLimit(Append(q, [c |-> "startAfter", cursor |-> cursor]),
                                     options)))
             /\ fsPc' = "query"
             /\ UNCHANGED fsOut
  /\ UNCHANGED fsOp
  /\ FsFrame

\* firestoreService.list from the cursor document's snapshot on
list_cursor ==
  /\ UNCHANGED fsCount
  /\ fsSeen' = Append(fsSeen, docs)
  /\ fsPc = "cursor" /\ fsOp.op \in {"list", "listSubcollection"}
  /\ LET options == fsOp.options
         q == WithOrderBy(<<>>, options)
         cursor == DocSnapshot(options.startAfterDocId.v)
     IN IF ~cursor.exists
        THEN /\ fsOut' = Thrown("Invalid pagination cursor")
             /\ fsPc' = "done"
             /\ UNCHANGED fsReads
        ELSE IF ~CursorFits(q, cursor)
        THEN /\ fsOut' = Thrown("provider")
             /\ fsPc' = "done"
             /\ UNCHANGED fsReads
        ELSE /\ fsReads' = Append(fsReads,
                 QueryRead(WithLimit(Append(q, [c |-> "startAfter", cursor |-> cursor]),
                                     options)))
             /\ fsPc' = "query"
             /\ UNCHANGED fsOut
  /\ UNCHANGED fsOp
  /\ FsFrame

\* firestoreService.query up to the await of the query
query(filters, options) ==
  /\ fsPc = "idle"
  /\ fsCount < MaxCalls
  /\ fsCount' = fsCount + 1
  /\ fsOp' = FsCall("query", "_", filters, NoFilter, options)
  /\ fsOut' = [kind |-> "none"]
  /\ fsSeen' = <<>>
  /\ fsReads' = <<QueryRead(WithLimit(WithOrderBy(WithWhere(<<>>, filters), options), options))>>
  /\ fsPc' = "query"
  /\ FsFrame

\* firestoreService.queryWithFilter up to the await of the query
queryWithFilter(filter, options) ==
  /\ fsPc = "idle"
  /\ fsCount < MaxCalls
  /\ fsCount' = fsCount + 1
  /\ fsOp' = FsCall("queryWithFilter", "_", <<>>, filter, options)
  /\ fsOut' = [kind |-> "none"]
  /\ fsSeen' = <<>>
  /\ fsReads' = <<QueryRead(WithLimit(WithOrderBy(<<[c |-> "filter", filter |-> filter]>>,
                                                   options), options))>>
  /\ fsPc' = "query"
  /\ FsFrame

\* firestoreService.listSubcollection: list on the subcollection's path; docs is
\* the content of the collection at that path
listSubcollection(options) ==
  /\ fsPc = "idle"
  /\ fsCount < MaxCalls
  /\ fsCount' = fsCount + 1
  /\ fsOp' = FsCall("listSubcollection", "_", <<>>, NoFilter, options)
  /\ fsOut' = [kind |-> "none"]
  /\ fsSeen' = <<>>
  /\ LET q == WithOrderBy(<<>>, options)
     IN IF Truthy(options.startAfterDocId)
        THEN /\ fsReads' = <<DocRead(options.startAfterDocId.v)>>
             /\ fsPc' = "cursor"
        ELSE /\ fsReads' = <<QueryRead(WithLimit(q, options))>>
             /\ fsPc' = "query"
  /\ FsFrame

\* list, query and queryWithFilter from the query's snapshot on
query_settled ==
  /\ UNCHANGED fsCount
  /\ fsSeen' = Append(fsSeen, docs)
  /\ fsPc = "query"
  /\ fsOut' = Returned(snapshotToArray(QueryDocs(fsReads[Len(fsReads)].q)))
  /\ fsPc' = "done"
  /\ UNCHANGED <<fsOp, fsReads>>
  /\ FsFrame

\* the caller takes the outcome
fsReturn ==
  /\ UNCHANGED fsCount
  /\ fsPc = "done"
  /\ fsPc' = "idle"
  /\ fsOp' = [op |-> "none"]
  /\ fsReads' = <<>>
  /\ fsOut' = [kind |-> "none"]
  /\ fsSeen' = <<>>
  /\ FsFrame

\* document data callers write
WriteData == {[rank |-> Num(1)], [rank |-> Num(2)]}

\* the options argument of set; absent stands for options ?? {}
SetOptions == {Undefined, Obj([merge |-> Bool(TRUE)])}

SetWrite(docId, data, options) ==
  [op |-> "set", docId |-> docId, data |-> data, options |-> options]

UpdateWrite(docId, data) ==
  [op |-> "update", docId |-> docId, data |-> data, options |-> [merge |-> Undefined]]

DeleteWrite(docId) ==
  [op |-> "delete", docId |-> docId, data |-> NoBody, options |-> [merge |-> Undefined]]

\* the functions callers run in a transaction: read one document, then write
\* depending on whether it exists
TransactionFns ==
  {[from |-> "d1",
    writes |-> [b \in BOOLEAN |->
                  IF b THEN <<UpdateWrite("d1", [rank |-> Num(2)])>>
                  ELSE <<SetWrite("d1", [rank |-> Num(1)], [merge |-> Undefined])>>]]}

\* a call of the write section as it stands while its provider call is pending
WriteCall(op, docId, data, options, fn) ==
  [op |-> op, docId |-> docId, data |-> data, options |-> options, fn |-> fn]

NoFn == [from |-> "_", writes |-> [b \in BOOLEAN |-> <<>>]]

\* calls of the write section started so far
WritesStarted == Len(fsWrites) + Len(fsWriting)

\* fsWriting without its i-th element
Unqueued(i) == SubSeq(fsWriting, 1, i - 1) \o SubSeq(fsWriting, i + 1, Len(fsWriting))

\* a write is called: the provider call is made and awaited
FsWrite(call) ==
  /\ fsWriting' = Append(fsWriting, call)
  /\ UNCHANGED <<docs, fsWrites, fsOp, fsPc, fsReads, fsOut, fsCount, fsSeen>>
  /\ UNCHANGED <<httpVars, svcVars, appVars>>

\* the provider answers pending write i with outcome o, and the call returns
FsWritten(i, docId, o) ==
  /\ docs' = o.docs
  /\ fsWrites' = Append(fsWrites, [op |-> fsWriting[i].op, docId |-> docId,
                                    kind |-> o.kind, value |-> o.value])
  /\ fsWriting' = Unqueued(i)
  /\ UNCHANGED <<fsOp, fsPc, fsReads, fsOut, fsCount, fsSeen>>
  /\ UNCHANGED <<httpVars, svcVars, appVars>>

\* firestoreService.add up to the await of the provider's add
add(data) ==
  /\ WritesStarted < MaxWrites
  /\ FsWrite(WriteCall("add", "_", data, [merge |-> Undefined], NoFn))

\* firestoreService.add from the provider's answer on: ref.id is returned
add_settled ==
  \E i \in 1..Len(fsWriting) :
    /\ fsWriting[i].op = "add"
    /\ \E o \in db_add(docs, fsWriting[i].data) : FsWritten(i, o.value.v, o)

\* firestoreService.set: the provider's promise is returned to the caller
set(docId, data, options) ==
  /\ WritesStarted < MaxWrites
  /\ FsWrite(WriteCall("set", docId, data,
                       IF options = Undefined THEN [merge |-> Undefined] ELSE options.v,
                       NoFn))

\* the provider answers a set
set_settled ==
  \E i \in 1..Len(fsWriting) :
    /\ fsWriting[i].op = "set"
    /\ FsWritten(i, fsWriting[i].docId,
                 db_set(docs, fsWriting[i].docId, fsWriting[i].data, fsWriting[i].options))

\* firestoreService.update: the provider's promise is returned to the caller
update(docId, data) ==
  /\ WritesStarted < MaxWrites
  /\ FsWrite(WriteCall("update", docId, data, [merge |-> Undefined], NoFn))

\* the provider answers an update
update_settled ==
  \E i \in 1..Len(fsWriting) :
    /\ fsWriting[i].op = "update"
    /\ FsWritten(i, fsWriting[i].docId,
                 db_update(docs, fsWriting[i].docId, fsWriting[i].data))

\* firestoreService.delete: the provider's promise is returned to the caller
delete(docId) ==
  /\ WritesStarted < MaxWrites
  /\ FsWrite(WriteCall("delete", docId, NoBody, [merge |-> Undefined], NoFn))

\* the provider answers a delete
delete_settled ==
  \E i \in 1..Len(fsWriting) :
    /\ fsWriting[i].op = "delete"
    /\ FsWritten(i, fsWriting[i].docId, db_delete(docs, fsWriting[i].docId))

\* firestoreService.batch: the provider's WriteBatch is returned at once;
\* nothing is queued, nothing is committed, the collection is as it was
batch ==
  /\ WritesStarted < MaxWrites
  /\ fsWrites' = Append(fsWrites, [op |-> "batch", docId |-> "_", kind |-> "return",
                                    value |-> Str("WriteBatch")])
  /\ UNCHANGED <<docs, fsWriting, fsOp, fsPc, fsReads, fsOut, fsCount, fsSeen>>
  /\ UNCHANGED <<httpVars, svcVars, appVars>>

\* firestoreService.transaction: the provider's promise is returned to the caller
transaction(fn) ==
  /\ WritesStarted < MaxWrites
  /\ FsWrite(WriteCall("transaction", "_", NoBody, [merge |-> Undefined], fn))

\* the provider has run the transaction
transaction_settled ==
  \E i \in 1..Len(fsWriting) :
    /\ fsWriting[i].op = "transaction"
    /\ FsWritten(i, "_", db_runTransaction(docs, fsWriting[i].fn))

InitFs ==
  /\ HttpIdle
  /\ SvcIdle
  /\ AppIdle
  /\ docs \in Collections
  /\ fsOp = [op |-> "none"]
  /\ fsPc = "idle"
  /\ fsReads = <<>>
  /\ fsOut = [kind |-> "none"]
  /\ fsCount = 0
  /\ fsSeen = <<>>
  /\ fsWrites = <<>>
  /\ fsWriting = <<>>

NextFs ==
  \/ \E d \in DocIds \cup {"d9"} : get(d)
  \/ get_settled
  \/ \E o \in ListOptionsSet : list(o)
  \/ list_cursor
  \/ \E f \in FilterLists, o \in QueryOptionsSet : query(f, o)
  \/ \E f \in CompositeFilters, o \in QueryOptionsSet : queryWithFilter(f, o)
  \/ \E o \in SubListOptionsSet : listSubcollection(o)
  \/ query_settled
  \/ fsReturn
  \/ \E data \in WriteData : add(data)
  \/ \E docId \in DocIds, data \in WriteData, options \in SetOptions : set(docId, data, options)
  \/ \E docId \in DocIds, data \in WriteData : update(docId, data)
  \/ \E docId \in DocIds : delete(docId)
  \/ batch
  \/ \E fn \in TransactionFns : transaction(fn)
  \/ add_settled
  \/ set_settled
  \/ update_settled
  \/ delete_settled
  \/ transaction_settled

SpecFs == InitFs /\ [][NextFs]_vars

(* ----------------------------------------------------------------------- *)
(* authService custom-claims operations, called directly                  *)
(* ----------------------------------------------------------------------- *)

SvcFrame ==
  /\ UNCHANGED <<req, reqUser, idx, pc, pending, res, nexts, calls, outcomes, nreq,
               answeredRevoke, arrived, parked>>
  /\ UNCHANGED <<fsVars, appVars>>

\* the claims objects callers pass
SvcClaims ==
  {Obj(EmptyObj), Obj([admin |-> Bool(TRUE)]), Obj([admin |-> Bool(FALSE)]),
   Obj([editor |-> Bool(TRUE)])}

SvcUids == {Str(u) : u \in Uids}

\* the uid lists callers pass to deleteUsers
SvcUidLists == {<<>>, <<Str("u2")>>, <<Str("u1"), Str("u2")>>, <<Str("u3")>>}

SvcStarted == Len(svcLog) + Cardinality({p \in Callers : svcPc[p] # "idle"})

\* the custom claims the provider holds for uid
ClaimsOf(us, uid) ==
  IF uid.t = "string" /\ uid.v \in Uids /\ us[uid.v].exists THEN us[uid.v].customClaims
  ELSE Undefined

SvcBegin(p, op, uid, claims) ==
  /\ svcPc[p] = "idle"
  /\ SvcStarted < MaxSvcCalls
  /\ svcCall' = [svcCall EXCEPT ![p] =
                   [op |-> op, uid |-> uid, claims |-> claims, before |-> ClaimsOf(users, uid)]]

\* the call of caller p is over
SvcEnd(p, o) ==
  /\ users' = o.users
  /\ revoked' = o.revoked
  /\ svcLog' = Append(svcLog, [op |-> svcCall[p].op, uid |-> svcCall[p].uid,
                               claims |-> svcCall[p].claims, before |-> svcCall[p].before,
                               after |-> ClaimsOf(o.users, svcCall[p].uid), ok |-> o.ok,
                               by |-> p])
  /\ svcPc' = [svcPc EXCEPT ![p] = "idle"]
  /\ svcCall' = [svcCall EXCEPT ![p] = NoSvcCall]
  /\ svcExisting' = [svcExisting EXCEPT ![p] = Undefined]

\* authService.mergeCustomClaims up to the await of auth.getUser
svc_mergeCustomClaims(p, uid, claims) ==
  /\ SvcBegin(p, "mergeCustomClaims", uid, claims)
  /\ svcPc' = [svcPc EXCEPT ![p] = "read"]
  /\ UNCHANGED <<users, revoked, svcExisting, svcLog>>
  /\ SvcFrame

\* authService.mergeCustomClaims from the user record on, up to the await of
\* auth.setCustomUserClaims
svc_mergeCustomClaims_read(p) ==
  /\ svcPc[p] = "read"
  /\ \E o \in auth_getUser(svcCall[p].uid) :
       IF o.ok
       THEN /\ svcExisting' = [svcExisting EXCEPT ![p] =
                   MergedClaims(Coalesce(o.value.customClaims, Obj(EmptyObj)),
                                svcCall[p].claims)]
            /\ svcPc' = [svcPc EXCEPT ![p] = "write"]
            /\ UNCHANGED <<users, revoked, svcCall, svcLog>>
       ELSE SvcEnd(p, o)
  /\ SvcFrame

\* authService.setCustomClaims up to the await of auth.setCustomUserClaims
svc_setCustomClaims(p, uid, claims) ==
  /\ SvcBegin(p, "setCustomClaims", uid, claims)
  /\ svcExisting' = [svcExisting EXCEPT ![p] = claims]
  /\ svcPc' = [svcPc EXCEPT ![p] = "write"]
  /\ UNCHANGED <<users, revoked, svcLog>>
  /\ SvcFrame

\* authService.clearCustomClaims up to the await of auth.setCustomUserClaims
svc_clearCustomClaims(p, uid) ==
  /\ SvcBegin(p, "clearCustomClaims", uid, Undefined)
  /\ svcExisting' = [svcExisting EXCEPT ![p] = Obj(EmptyObj)]
  /\ svcPc' = [svcPc EXCEPT ![p] = "write"]
  /\ UNCHANGED <<users, revoked, svcLog>>
  /\ SvcFrame

\* authService.deleteUsers up to the await of auth.deleteUsers
svc_deleteUsers(p, uids) ==
  /\ SvcBegin(p, "deleteUsers", Undefined, Undefined)
  /\ svcExisting' = [svcExisting EXCEPT ![p] = uids]
  /\ svcPc' = [svcPc EXCEPT ![p] = "delete"]
  /\ UNCHANGED <<users, revoked, svcLog>>
  /\ SvcFrame

\* auth.deleteUsers settles and the service call returns
svc_deleteUsers_settled(p) ==
  /\ svcPc[p] = "delete"
  /\ \E o \in authService_deleteUsers(svcExisting[p]) : SvcEnd(p, o)
  /\ SvcFrame

\* auth.setCustomUserClaims settles and the service call returns
svc_write(p) ==
  /\ svcPc[p] = "write"
  /\ \E o \in auth_setCustomUserClaims(svcCall[p].uid, svcExisting[p]) : SvcEnd(p, o)
  /\ SvcFrame

SvcAllIdle == \A p \in Callers : svcPc[p] = "idle"

InitSvc == HttpIdle /\ FsIdle /\ SvcIdle /\ AppIdle

\* one caller, whose calls run one at a time
NextClaims ==
  \/ \E u \in SvcUids, c \in SvcClaims : svc_mergeCustomClaims(1, u, c)
  \/ svc_mergeCustomClaims_read(1)
  \/ \E u \in SvcUids, c \in SvcClaims : svc_setCustomClaims(1, u, c)
  \/ \E u \in SvcUids : svc_clearCustomClaims(1, u)
  \/ svc_write(1)
  \/ \E l \in SvcUidLists : svc_deleteUsers(1, l)
  \/ svc_deleteUsers_settled(1)

SpecClaims == InitSvc /\ [][NextClaims]_vars

\* callers merging at the same time
NextMerge ==
  \/ \E p \in Callers, u \in SvcUids, c \in SvcClaims : svc_mergeCustomClaims(p, u, c)
  \/ \E p \in Callers : svc_mergeCustomClaims_read(p)
  \/ \E p \in Callers : svc_write(p)
  \/ \E p \in Callers, l \in SvcUidLists : svc_deleteUsers(p, l)
  \/ \E p \in Callers : svc_deleteUsers_settled(p)

SpecMerge == InitSvc /\ [][NextMerge]_vars

(* ----------------------------------------------------------------------- *)
(* app: the Express application that listens                               *)
(* ----------------------------------------------------------------------- *)

Layer(mount, h) == [mount |-> mount, h |-> h]

\* the application's middleware stack: app.use(json()) and nothing else
AppStack == <<Layer("", "json")>>

\* a layer mounted at a path sees the requests whose URL starts with it
MountMatches(layer, a) == layer.mount = "" \/ layer.mount = a.mount

\* the router has a route for the request
Routed(r) ==
  \E i \in 1..Len(authRouter) :
    authRouter[i].method = r.method /\ authRouter[i].path = r.path

\* requests for the nine documented verb/path pairs, with and without /auth
AppRequests ==
  {AppRequest(m, r) :
     m \in {"/auth", ""},
     r \in {q \in Requests :
              /\ q.authorization \in {Chars(BearerPrefix \o <<"a">>),
                                      Chars(BearerPrefix \o <<"b">>)}
              /\ q.uid \in {Undefined, Str("u1")}}}

AppFrame == UNCHANGED <<fsVars, svcVars>>

\* a request arrives at the listening application
app_request(a) ==
  /\ appPc = "idle"
  /\ appCount < MaxAppRequests
  /\ appCount' = appCount + 1
  /\ appReq' = a
  /\ appPc' = "stack"
  /\ appIdx' = 1
  /\ appRes' = <<>>
  /\ UNCHANGED httpVars
  /\ AppFrame

\* the application runs the next layer of its stack
app_handle ==
  /\ appPc = "stack"
  /\ appIdx <= Len(AppStack)
  /\ LET layer == AppStack[appIdx]
     IN IF MountMatches(layer, appReq) /\ layer.h = "authRouter" /\ Routed(appReq.r)
        THEN /\ req' = appReq.r
             /\ idx' = 1
             /\ pc' = "run"
             /\ appPc' = "routed"
             /\ UNCHANGED <<users, revoked, reqUser, pending, res, nexts, calls, outcomes,
                            nreq, answeredRevoke, arrived, parked, appIdx>>
        ELSE /\ appIdx' = appIdx + 1
             /\ UNCHANGED <<httpVars, appPc>>
  /\ UNCHANGED <<appReq, appRes, appCount>>
  /\ AppFrame

\* no layer answered: Express answers 404
app_finalhandler ==
  /\ appPc = "stack"
  /\ appIdx > Len(AppStack)
  /\ appRes' = Append(appRes, [status |-> 404, by |-> "finalhandler"])
  /\ appPc' = "done"
  /\ UNCHANGED <<appReq, appIdx, appCount>>
  /\ UNCHANGED httpVars
  /\ AppFrame

\* the application is ready for the next request
app_release ==
  /\ appPc = "done"
  /\ appReq' = NoAppRequest
  /\ appPc' = "idle"
  /\ appIdx' = 0
  /\ appRes' = <<>>
  /\ UNCHANGED appCount
  /\ UNCHANGED httpVars
  /\ AppFrame

NextApp ==
  \/ \E a \in AppRequests : app_request(a)
  \/ app_handle
  \/ app_finalhandler
  \/ app_release

SpecApp == Init /\ [][NextApp]_vars

(* ----------------------------------------------------------------------- *)
(* Properties of the auth router                                           *)
(* ----------------------------------------------------------------------- *)

\* the Authorization header starts with the seven characters of "Bearer "
HasBearer ==
  /\ req.authorization # Undefined
  /\ Len(req.authorization.v) >= 7
  /\ \A i \in 1..7 : req.authorization.v[i] = <<"B", "e", "a", "r", "e", "r", " ">>[i]

\* the values JavaScript treats as false
IsFalsy(x) ==
  x \in {Undefined, Null, Bool(FALSE), Num(0), NaN, Str(""), Chars(<<>>)}

\* the request is on a route guarded by requireAuth
Guarded == req.path \in {"/me", "/users", "/user", "/user/:uid", "/user/:uid/claims",
                         "/user/:uid/revoke"}

\* the request is on one of the seven admin routes
AdminRoute == req.path \in {"/users", "/user", "/user/:uid", "/user/:uid/claims",
                            "/user/:uid/revoke"}

UserManagementOps ==
  {"getUserByUid", "createUser", "updateUser", "deleteUser", "listUsers",
   "setCustomClaims", "revokeRefreshTokens"}

ErrorResponse(status, message, by) ==
  [status |-> status, body |-> Obj([error |-> Str(message)]), by |-> by]

Count(seq, x) == Cardinality({i \in 1..Len(seq) : seq[i] = x})

SentBy(h) == {i \in 1..Len(res) : res[i].by = h}

\* C1: once requireAuth has handled a request whose Authorization header is
\* absent or does not start with "Bearer ", the only response is 401
\* {error: "No authentication token provided"}, verifyIdToken has not been
\* called, next has not been called and req.user is unset.
C1_NoTokenRejected ==
  (Guarded /\ ~HasBearer /\ ~(pc = "run" /\ idx = 1)) =>
    /\ pc = "done"
    /\ res = <<ErrorResponse(401, "No authentication token provided", "requireAuth")>>
    /\ calls = <<>>
    /\ nexts = <<>>
    /\ reqUser = Undefined

C1_Witness ==
  /\ pc = "done"
  /\ req.path = "/me"
  /\ req.authorization = Chars(<<"B", "e", "a", "r", "e", "r", "a">>)
  /\ Len(res) = 1 /\ res[1].status = 401

\* C2: for a request with a "Bearer " header, once verifyIdToken has settled:
\* if it resolved, req.user is the decoded token, requireAuth has called next
\* exactly once and has sent no response; if it rejected, the only response is
\* 401 {error: "Invalid or expired authentication token"}, next was never
\* called and req.user is unset. Until it settles nothing of this has happened.
C2_VerifyOutcome ==
  (Guarded /\ HasBearer /\ ~(pc = "run" /\ idx = 1)) =>
    /\ calls[1].op = "verifyIdToken"
    /\ IF outcomes = <<>>
       THEN pc = "await" /\ reqUser = Undefined /\ nexts = <<>> /\ res = <<>>
       ELSE IF outcomes[1].ok
       THEN /\ reqUser = outcomes[1].value
            /\ Count(nexts, "requireAuth") = 1
            /\ SentBy("requireAuth") = {}
       ELSE /\ res = <<ErrorResponse(401, "Invalid or expired authentication token",
                                     "requireAuth")>>
            /\ nexts = <<>>
            /\ reqUser = Undefined
            /\ pc = "done"

C2_Witness ==
  /\ pc = "run" /\ idx = 2
  /\ req.authorization = Chars(BearerPrefix \o <<"b">>)
  /\ reqUser = Obj([uid |-> Str("u2")])
  /\ nexts = <<"requireAuth">>

\* requireRole has returned for the request
RoleChecked == AdminRoute /\ (idx >= 3 \/ (idx = 2 /\ pc = "done"))

\* req.user exists and carries a truthy admin claim
AdminClaimTruthy ==
  /\ reqUser # Undefined
  /\ "admin" \in DOMAIN reqUser.v
  /\ ~IsFalsy(reqUser.v.admin)

\* C3: once requireRole("admin") has returned, it has called next exactly when
\* req.user exists and req.user.admin is truthy, and otherwise has sent 403
\* {error: "You are not authorized to perform this action"} and not called
\* next; it has never done both and never neither.
C3_RoleDecision ==
  RoleChecked =>
    IF AdminClaimTruthy
    THEN Count(nexts, "requireRole") = 1 /\ SentBy("requireRole") = {}
    ELSE /\ Count(nexts, "requireRole") = 0
         /\ pc = "done"
         /\ res = <<ErrorResponse(403, "You are not authorized to perform this action",
                                  "requireRole")>>

C3_Witness ==
  /\ pc = "done" /\ idx = 2
  /\ reqUser = Obj([uid |-> Str("u2"), admin |-> Bool(FALSE)])
  /\ res[1].status = 403

\* C4: on the admin routes a user-management call is made, and the controller
\* is entered, only after verifyIdToken resolved and requireRole("admin") found
\* a truthy admin claim in the decoded token; a request stopped by requireAuth
\* has one 401 response, one stopped by requireRole one 403 response, and
\* neither has made a user-management call.
C4_AdminOnly ==
  AdminRoute =>
    /\ (idx >= 3 \/ \E i \in 1..Len(calls) : calls[i].op \in UserManagementOps) =>
         /\ Len(outcomes) >= 1
         /\ calls[1].op = "verifyIdToken"
         /\ outcomes[1].ok
         /\ "admin" \in DOMAIN outcomes[1].value.v
         /\ ~IsFalsy(outcomes[1].value.v.admin)
         /\ Len(nexts) = 2 /\ nexts = <<"requireAuth", "requireRole">>
    /\ (pc = "done" /\ idx < 3) =>
         /\ Len(res) = 1
         /\ res[1].status = (IF idx = 1 THEN 401 ELSE 403)
         /\ \A i \in 1..Len(calls) : calls[i].op \notin UserManagementOps

C4_Witness ==
  /\ pc = "await" /\ idx = 3
  /\ req.method = "DELETE"
  /\ Len(calls) = 2 /\ calls[2].op = "deleteUser"

\* a controller's provider call has been rejected and the request is answered
ControllerFailed ==
  /\ pc = "done"
  /\ calls # <<>>
  /\ calls[Len(calls)].op # "verifyIdToken"
  /\ Len(outcomes) = Len(calls)
  /\ ~outcomes[Len(outcomes)].ok

\* the code string of the rejection
FailureCode == Get(outcomes[Len(outcomes)].value.v, "code")

\* the codes a controller maps to a constant of their own
MappedCodes(controller) ==
  IF controller = "createUser"
  THEN {Str("auth/email-already-exists"), Str("auth/invalid-email"), Str("auth/weak-password")}
  ELSE {}

LastResponse == res[Len(res)]

\* C5 as stated: in every controller a provider failure with a code that is
\* not specifically mapped is answered with HTTP 500.
C5_AlwaysGeneric500 ==
  (ControllerFailed /\ FailureCode \notin MappedCodes(calls[Len(calls)].op)) =>
    LastResponse.status = 500

\* C5 amended: a provider failure with a code that is not specifically mapped
\* is answered with a generic 500 by createUser and listUsers, with 404
\* "User not found" by getMe, getUserByUid, updateUser, deleteUser,
\* setCustomClaims and revokeTokens, and with 401 "Invalid or expired
\* authentication token" by createSession.
C5_UnmatchedFallback ==
  (ControllerFailed /\ FailureCode \notin MappedCodes(LastResponse.by)) =>
    /\ Len(res) = 1
    /\ LastResponse =
         CASE LastResponse.by = "createUser" ->
                ErrorResponse(500, "Failed to create user", "createUser")
           [] LastResponse.by = "listUsers" ->
                ErrorResponse(500, "Failed to list users", "listUsers")
           [] LastResponse.by = "createSession" ->
                ErrorResponse(401, "Invalid or expired authentication token", "createSession")
           [] OTHER -> ErrorResponse(404, "User not found", LastResponse.by)

C5_Witness ==
  /\ ControllerFailed
  /\ LastResponse.by = "createUser"
  /\ FailureCode = Str("auth/invalid-password")
  /\ LastResponse.status = 500

\* C6: when the provider's createUser rejects with auth/email-already-exists
\* the response is 409 with the USER_ALREADY_EXISTS message, with
\* auth/invalid-email 400 with the INVALID_EMAIL message, with
\* auth/weak-password 400 with the WEAK_PASSWORD message: the status and message
\* of the AuthError constant, and the controller's only response.
C6_CreateUserMapping ==
  (ControllerFailed /\ calls[Len(calls)].op = "createUser") =>
    /\ FailureCode = Str("auth/email-already-exists") =>
         /\ LastResponse = ErrorResponse(409, "A user with this email already exists",
                                         "createUser")
         /\ LastResponse.status = AuthError.USER_ALREADY_EXISTS.status
         /\ LastResponse.body.v.error = AuthError.USER_ALREADY_EXISTS.message
    /\ FailureCode = Str("auth/invalid-email") =>
         /\ LastResponse = ErrorResponse(400, "The email address is invalid", "createUser")
         /\ LastResponse.status = AuthError.INVALID_EMAIL.status
         /\ LastResponse.body.v.error = AuthError.INVALID_EMAIL.message
    /\ FailureCode = Str("auth/weak-password") =>
         /\ LastResponse = ErrorResponse(400, "Password must be at least 6 characters",
                                         "createUser")
         /\ LastResponse.status = AuthError.WEAK_PASSWORD.status
         /\ LastResponse.body.v.error = AuthError.WEAK_PASSWORD.message
    /\ Cardinality(SentBy("createUser")) = 1
    /\ Len(res) = 1

C6_Witness ==
  /\ ControllerFailed
  /\ calls[Len(calls)].op = "createUser"
  /\ FailureCode = Str("auth/email-already-exists")
  /\ LastResponse.status = 409

\* the createUser controller has run up to its response or its await
CreateUserEntered ==
  req.method = "POST" /\ req.path = "/user" /\ idx = 3 /\ pc \in {"await", "done"}

\* C7: when the body's email or password is missing or falsy, createUser
\* answers 400 {error: "Email and password are required"} and the provider's
\* createUser is never called; when both are present and the provider succeeds
\* the answer is 201 carrying the created user.
C7_CreateUserInput ==
  CreateUserEntered =>
    IF IsFalsy(Get(req.body, "email")) \/ IsFalsy(Get(req.body, "password"))
    THEN /\ pc = "done"
         /\ LastResponse = ErrorResponse(400, "Email and password are required", "createUser")
         /\ Len(res) = 1
         /\ \A i \in 1..Len(calls) : calls[i].op # "createUser"
    ELSE /\ Len(calls) = 2 /\ calls[2].op = "createUser"
         /\ (pc = "done" /\ outcomes[2].ok) =>
              /\ Len(res) = 1
              /\ LastResponse.status = 201
              /\ LastResponse.body = Obj([user |-> outcomes[2].value])
              /\ LastResponse.body.v.user.v.email = req.body.email
              /\ \E u \in Uids : /\ users[u].exists
                                 /\ users[u].email = req.body.email
                                 /\ LastResponse.body.v.user.v.uid = Str(u)

C7_Witness ==
  /\ CreateUserEntered
  /\ pc = "done"
  /\ Get(req.body, "email") = Str("e3")
  /\ Get(req.body, "password") = Num(0)
  /\ LastResponse.status = 400

\* the createSession controller has run up to its response or its await
CreateSessionEntered == req.path = "/session" /\ pc \in {"await", "done"}

\* C8: createSession answers 401 with the NO_TOKEN_PROVIDED message, without
\* calling createSessionCookie, when body.idToken is missing or falsy; otherwise
\* it calls createSessionCookie with body.expiresIn when that is of number type
\* and with 432000000 in every other case; the response carries a sessionCookie
\* only if the provider accepted, and a rejection yields 401 with the
\* INVALID_TOKEN message.
C8_CreateSession ==
  CreateSessionEntered =>
    IF IsFalsy(Get(req.body, "idToken"))
    THEN /\ pc = "done"
         /\ res = <<ErrorResponse(401, "No authentication token provided", "createSession")>>
         /\ calls = <<>>
    ELSE /\ calls =
              <<[op |-> "createSessionCookie",
                 args |-> <<req.body.idToken,
                            IF Get(req.body, "expiresIn").t \in {"number", "nan"}
                            THEN req.body.expiresIn ELSE Num(432000000)>>]>>
         /\ pc = "done" =>
              /\ Len(res) = 1
              /\ IF outcomes[1].ok
                 THEN res[1].status = 200
                      /\ res[1].body = Obj([sessionCookie |-> outcomes[1].value])
                 ELSE res[1] = ErrorResponse(401, "Invalid or expired authentication token",
                                             "createSession")

C8_Witness ==
  /\ CreateSessionEntered
  /\ pc = "done"
  /\ Get(req.body, "expiresIn") = Num(0)
  /\ Len(calls) = 1
  /\ calls[1].args[2] = Num(0)
  /\ res[1].status = 401

(* ----------------------------------------------------------------------- *)
(* Properties of the data-access layer                                     *)
(* ----------------------------------------------------------------------- *)

\* the collection as the read that produced the call's outcome found it
Found == fsSeen[Len(fsSeen)]

\* r is the data of document d as the read found it, with the field id set to d
IsRecordOf(r, d) ==
  /\ DOMAIN r = (DOMAIN Found[d]) \cup {"id"}
  /\ r.id = Str(d)
  /\ \A f \in (DOMAIN Found[d]) \ {"id"} : r[f] = Found[d][f]

\* C9: get returns null exactly when the document does not exist, and every
\* record returned by get, list, query or queryWithFilter has id equal to the
\* document's identifier, also when the stored data has a field named id, and
\* every other stored field with its stored value; the document and its data
\* are those the provider's read found, whatever is written afterwards.
C9_ReadsPassThrough ==
  (fsPc = "done" /\ fsOut.kind = "return") =>
    /\ fsSeen # <<>>
    /\ IF fsOp.op = "get"
       THEN /\ (fsOut.value = Null) <=> (fsOp.docId \notin DOMAIN Found)
            /\ fsOp.docId \in DOMAIN Found =>
                 fsOut.value.t = "object" /\ IsRecordOf(fsOut.value.v, fsOp.docId)
       ELSE \A k \in 1..Len(fsOut.value) :
              /\ fsOut.value[k].id.v \in DOMAIN Found
              /\ IsRecordOf(fsOut.value[k], fsOut.value[k].id.v)

C9_Witness ==
  /\ fsPc = "done" /\ fsOp.op = "list" /\ fsOut.kind = "return"
  /\ Len(fsOut.value) = 2
  /\ "d1" \in DOMAIN Found
  /\ "id" \in DOMAIN Found["d1"]
  /\ fsOut.value[1].id = Str("d1")

\* the cursor identifier of a list call that asks for one
CursorId == fsOp.options.startAfterDocId.v

\* the document of a returned record comes strictly after the cursor document
\* in the order the options ask for
AfterCursor(r) ==
  LET c == fsSeen[1][CursorId]
      byId == IdRank(r.id.v) > IdRank(CursorId)
  IN IF fsOp.options.orderBy = Str("rank")
     THEN IF fsOp.options.orderDirection = Str("desc")
          THEN r.rank.v < c.rank.v \/ (r.rank.v = c.rank.v /\ ~byId /\ r.id.v # CursorId)
          ELSE r.rank.v > c.rank.v \/ (r.rank.v = c.rank.v /\ byId)
     ELSE byId

\* the call has thrown an error with the given message
Threw(message) == fsOut.kind = "throw" /\ fsOut.value = message

\* the read of the cursor document has settled and found it
CursorFound == fsSeen # <<>> /\ CursorId \in DOMAIN fsSeen[1]

\* the read of the cursor document has settled and found no such document
CursorMissing == fsSeen # <<>> /\ CursorId \notin DOMAIN fsSeen[1]

\* C10: a list call with a startAfterDocId reads the cursor document before it
\* runs any query; if the read finds no such document the call throws "Invalid
\* pagination cursor" and no query is run; if it finds the document the query
\* carries startAfter with that document as read, after orderBy and before
\* limit, and returns only documents strictly after it.
C10_ListCursor ==
  (fsOp.op = "list" /\ ~IsFalsy(fsOp.options.startAfterDocId)) =>
    /\ Len(fsReads) >= 1 /\ fsReads[1] = DocRead(CursorId)
    /\ fsSeen = <<>> => Len(fsReads) = 1 /\ fsPc = "cursor" /\ fsOut.kind = "none"
    /\ CursorMissing =>
         /\ Len(fsReads) = 1
         /\ fsPc = "done"
         /\ Threw("Invalid pagination cursor")
    /\ CursorFound =>
         /\ ~Threw("Invalid pagination cursor")
         /\ Len(fsReads) <= 2
         /\ Len(fsReads) = 2 =>
              LET q == fsReads[2].q
              IN /\ fsReads[2].read = "query"
                 /\ Cardinality(Clauses(q, "startAfter")) = 1
                 /\ \A i \in Clauses(q, "startAfter") :
                      /\ q[i].cursor.id = CursorId
                      /\ q[i].cursor.data = fsSeen[1][CursorId]
                      /\ \A j \in Clauses(q, "orderBy") : j < i
                      /\ \A j \in Clauses(q, "limit") : i < j
                 /\ ~IsFalsy(fsOp.options.orderBy) => Clauses(q, "orderBy") # {}
                 /\ ~IsFalsy(fsOp.options.limit) => Clauses(q, "limit") # {}
         /\ fsOut.kind = "return" =>
              /\ Len(fsReads) = 2
              /\ \A k \in 1..Len(fsOut.value) : AfterCursor(fsOut.value[k])

C10_Witness ==
  /\ fsPc = "done" /\ fsOp.op = "list"
  /\ fsOp.options.startAfterDocId = Str("d9")
  /\ DOMAIN fsSeen[1] = {"d1", "d2"}
  /\ Threw("Invalid pagination cursor")
  /\ fsReads = <<DocRead("d9")>>

\* the setCustomClaims controller has run up to its response or its await
SetClaimsEntered ==
  req.path = "/user/:uid/claims" /\ idx = 3 /\ pc \in {"await", "done"}

\* body.claims is absent, null, otherwise falsy, or not of object type
ClaimsInvalid ==
  LET claims == Get(req.body, "claims")
  IN IsFalsy(claims) \/ claims.t # "object"

\* C13: when body.claims is absent, null, otherwise falsy or not of object
\* type, the setCustomClaims controller answers 400 {error: "Claims must be a
\* valid object"} and setCustomUserClaims is not called; otherwise, and only
\* then, the provider is called with the uid of the path and the claims of the
\* body.
C13_ClaimsValidated ==
  SetClaimsEntered =>
    IF ClaimsInvalid
    THEN /\ pc = "done"
         /\ res = <<ErrorResponse(400, "Claims must be a valid object", "setCustomClaims")>>
         /\ Len(calls) = 1 /\ calls[1].op = "verifyIdToken"
    ELSE /\ Len(calls) = 2
         /\ calls[2].op = "setCustomClaims"
         /\ calls[2].args = <<req.uid, Get(req.body, "claims")>>
         /\ (pc = "done" /\ outcomes[2].ok) =>
              /\ res[1].status = 200
              /\ users[req.uid.v].customClaims = req.body.claims

\* a truthy claims value that is not an object was refused
C13_Witness ==
  /\ SetClaimsEntered
  /\ pc = "done"
  /\ Get(req.body, "claims") = Str("admin")
  /\ Len(res) = 1 /\ res[1].status = 400

\* the header after its first seven characters
HeaderRemainder == SubSeq(req.authorization.v, 8, Len(req.authorization.v))

\* C15: for every Authorization header "Bearer " followed by a token t, the
\* string requireAuth passes to verifyIdToken is exactly t, the whole remainder
\* of the header after the 7-character prefix, also when t itself contains
\* "Bearer ".
C15_WholeRemainderVerified ==
  (Guarded /\ HasBearer /\ calls # <<>>) =>
    /\ calls[1].op = "verifyIdToken"
    /\ calls[1].args[1] = Chars(HeaderRemainder)

\* When the token does not contain "Bearer ", the string verified is the whole
\* remainder of the header.
C15_PlainTokenVerified ==
  (Guarded /\ HasBearer /\ calls # <<>> /\ IndexOf(HeaderRemainder, BearerPrefix) = 0) =>
    /\ calls[1].op = "verifyIdToken"
    /\ calls[1].args[1] = Chars(HeaderRemainder)

\* the admin claim of the token verifyIdToken resolved for the request
TokenRoleClaim == Get(TokenTable[calls[1].args[1].v], "admin")

\* the admin claim the provider holds now for the token's user
StoredRoleClaim ==
  LET uid == TokenTable[calls[1].args[1].v].uid.v
  IN Get(Coalesce(ClaimsOf(users, Str(uid)), Obj(EmptyObj)).v, "admin")

\* C17: the outcome of requireRole is a function of the verified token's role
\* claim alone: it lets the request through exactly when that claim is truthy,
\* whatever custom claims the provider holds for the user at that moment, and
\* it makes no provider call.
C17_RoleFromTokenOnly ==
  RoleChecked =>
    /\ IF IsFalsy(TokenRoleClaim)
       THEN /\ Count(nexts, "requireRole") = 0
            /\ pc = "done"
            /\ Len(res) = 1 /\ res[1].status = 403 /\ res[1].by = "requireRole"
       ELSE Count(nexts, "requireRole") = 1 /\ SentBy("requireRole") = {}
    /\ ((idx = 2 /\ pc = "done") \/ (idx = 3 /\ pc = "run")) =>
         /\ Len(calls) = 1
         /\ Len(outcomes) = 1

\* a token issued with admin true passed requireRole after the user's stored
\* admin claim had been set to false
C17_Witness ==
  /\ RoleChecked
  /\ idx = 3
  /\ TokenRoleClaim = Bool(TRUE)
  /\ StoredRoleClaim = Bool(FALSE)

\* a request is being handled
InFlight == pc \in {"run", "await"}

\* C18: for every request routed through the auth router, when every provider
\* call settles, a response is sent exactly once: none while the chain is
\* still running, exactly one when it has ended, never two, and the chain
\* always ends.
C18_ExactlyOneResponse ==
  /\ [](/\ Len(res) <= 1
        /\ InFlight => res = <<>>
        /\ pc = "done" => Len(res) = 1
        /\ \A i \in 1..Len(parked) : parked[i].pc = "await" /\ parked[i].res = <<>>)
  /\ [][InFlight => (req' = req \/ \E i \in 1..Len(parked') : parked'[i].req = req)]_vars
  /\ ((InFlight \/ parked # <<>>) ~> (pc = "done" /\ Len(res) = 1 /\ parked = <<>>))

\* a request that passed requireAuth and requireRole got its one response
\* from a controller whose provider call failed
C18_Witness ==
  /\ pc = "done" /\ idx = 3
  /\ Len(res) = 1
  /\ Len(outcomes) = 2 /\ ~outcomes[2].ok

\* the token string requireAuth had verified is a token of uid
VerifiedTokenOf(uid) ==
  /\ calls[1].args[1].t = "chars"
  /\ calls[1].args[1].v \in DOMAIN TokenTable
  /\ TokenTable[calls[1].args[1].v].uid.v = uid

\* C16: requireAuth always verifies with checkRevoked = true, and once an
\* earlier request POST /auth/user/:uid/revoke has been answered 200, every
\* request presenting an ID token of that uid issued before the revocation is
\* answered 401 by requireAuth and reaches neither requireRole nor a
\* controller.
C16_RevokedTokensRejected ==
  (Guarded /\ HasBearer /\ calls # <<>>) =>
    /\ calls[1].op = "verifyIdToken"
    /\ calls[1].args[2] = Bool(TRUE)
    /\ \A u \in arrived :
         (VerifiedTokenOf(u) /\ outcomes # <<>>) =>
           /\ ~outcomes[1].ok
           /\ pc = "done" /\ idx = 1
           /\ res = <<ErrorResponse(401, "Invalid or expired authentication token",
                                    "requireAuth")>>
           /\ nexts = <<>>
           /\ Len(calls) = 1

\* a token of u2 was refused after an earlier request had revoked u2's tokens
C16_Witness ==
  /\ Guarded /\ HasBearer
  /\ pc = "done" /\ idx = 1
  /\ "u2" \in arrived
  /\ calls # <<>> /\ VerifiedTokenOf("u2")
  /\ outcomes # <<>> /\ outcomes[1].value = Obj([code |-> Str("auth/id-token-revoked")])

\* C14: a request for one of the nine documented verb/path pairs under /auth
\* that arrives at the listening application is handed to the auth router and
\* enters the chain registered for it; the application itself does not answer.
C14_AuthEndpointsExposed ==
  (appReq.mount = "/auth" /\ appPc \in {"routed", "done"}) =>
    /\ appPc = "routed"
    /\ appRes = <<>>
    /\ req = appReq.r /\ pc = "run" /\ idx = 1

\* No request reaches the auth router through the application.
C14_RouterNeverReached ==
  /\ appPc # "routed"
  /\ appPc = "done" => appRes = <<[status |-> 404, by |-> "finalhandler"]>>

(* ----------------------------------------------------------------------- *)
(* ListOptions.limit                                                       *)
(* ----------------------------------------------------------------------- *)

LimitedOps == {"list", "query", "queryWithFilter", "listSubcollection"}

\* C11: whenever list, query, queryWithFilter or listSubcollection is called
\* with options.limit a non-negative integer n and returns, the returned array
\* has at most n elements.
C11_LimitIsMaximum ==
  (/\ fsPc = "done"
   /\ fsOp.op \in LimitedOps
   /\ fsOp.options.limit.t = "number"
   /\ fsOut.kind = "return")
  => Len(fsOut.value) <= fsOp.options.limit.v

\* The returned array never exceeds a positive limit.
C11_PositiveLimitIsMaximum ==
  (/\ fsPc = "done"
   /\ fsOp.op \in LimitedOps
   /\ fsOp.options.limit.t = "number"
   /\ fsOp.options.limit.v > 0
   /\ fsOut.kind = "return")
  => Len(fsOut.value) <= fsOp.options.limit.v

(* ----------------------------------------------------------------------- *)
(* Custom claims                                                           *)
(* ----------------------------------------------------------------------- *)

\* the keys of a claims value; none when the user has no claims
ClaimKeys(c) == IF c.t = "object" THEN DOMAIN c.v ELSE {}

\* entry e of the log is a merge that overrode the previous claims key by key
MergeOverrides(e) ==
  /\ e.after.t = "object"
  /\ ClaimKeys(e.after) = ClaimKeys(e.before) \cup ClaimKeys(e.claims)
  /\ \A k \in ClaimKeys(e.claims) : e.after.v[k] = e.claims.v[k]
  /\ \A k \in ClaimKeys(e.before) \ ClaimKeys(e.claims) : e.after.v[k] = e.before.v[k]

\* C12: run one at a time, a successful mergeCustomClaims leaves the previous
\* claims overridden key by key by the new ones, setCustomClaims leaves exactly
\* the given claims, clearCustomClaims leaves none, and merging the same claims
\* a second time changes nothing.
C12_MergeSetClear ==
  /\ \A i \in 1..Len(svcLog) :
       LET e == svcLog[i]
       IN e.ok =>
            /\ e.op = "mergeCustomClaims" => MergeOverrides(e)
            /\ e.op = "setCustomClaims" => e.after = e.claims
            /\ e.op = "clearCustomClaims" => e.after.t = "object" /\ ClaimKeys(e.after) = {}
            /\ (SvcAllIdle /\ i = Len(svcLog) /\ e.op # "deleteUsers") =>
                 ClaimsOf(users, e.uid) = e.after
  /\ \A i \in 1..(Len(svcLog) - 1) :
       LET e == svcLog[i]
           f == svcLog[i + 1]
       IN (/\ e.ok /\ f.ok
           /\ e.op = "mergeCustomClaims" /\ f.op = "mergeCustomClaims"
           /\ e.uid = f.uid /\ e.claims = f.claims)
          => f.after = e.after

\* the same claims were merged twice into a user holding another claim
C12_Witness ==
  /\ Len(svcLog) = 2
  /\ svcLog[1].ok /\ svcLog[2].ok
  /\ svcLog[1].op = "mergeCustomClaims" /\ svcLog[2].op = "mergeCustomClaims"
  /\ svcLog[1].uid = svcLog[2].uid /\ svcLog[1].claims = svcLog[2].claims
  /\ ClaimKeys(svcLog[1].before) \ ClaimKeys(svcLog[1].claims) # {}
  /\ ClaimKeys(svcLog[1].claims) # {}

\* C19: when two mergeCustomClaims calls on the same uid with disjoint claim
\* keys have both been started and have both completed, the user's claims hold
\* the keys of both calls and every claim the user had before.
C19_NoMergeLost ==
  (/\ Len(svcLog) = 2 /\ SvcAllIdle
   /\ svcLog[1].ok /\ svcLog[2].ok
   /\ svcLog[1].op = "mergeCustomClaims" /\ svcLog[2].op = "mergeCustomClaims"
   /\ svcLog[1].uid = svcLog[2].uid
   /\ ClaimKeys(svcLog[1].claims) \cap ClaimKeys(svcLog[2].claims) = {})
  => LET uid == svcLog[1].uid
         was == ClaimsOf(InitUsers, uid)
         now == ClaimsOf(users, uid)
     IN /\ now.t = "object"
        /\ \A i \in 1..2 : \A k \in ClaimKeys(svcLog[i].claims) :
             k \in ClaimKeys(now) /\ now.v[k] = svcLog[i].claims.v[k]
        /\ \A k \in ClaimKeys(was) \ (ClaimKeys(svcLog[1].claims) \cup ClaimKeys(svcLog[2].claims)) :
             k \in ClaimKeys(now) /\ now.v[k] = was.v[k]

\* Two such merges that ran one after the other lose nothing.
C19_SequentialMergesKept ==
  (/\ Len(svcLog) = 2 /\ SvcAllIdle
   /\ svcLog[1].ok /\ svcLog[2].ok
   /\ svcLog[1].uid = svcLog[2].uid
   /\ svcLog[2].before = svcLog[1].after
   /\ ClaimKeys(svcLog[1].claims) \cap ClaimKeys(svcLog[2].claims) = {})
  => \A i \in 1..2 : \A k \in ClaimKeys(svcLog[i].claims) :
       k \in ClaimKeys(ClaimsOf(users, svcLog[1].uid))

\* worked values of parseInt
ParseIntExamples ==
  /\ ParseInt(<<"0", "x", "1", "0">>) = Num(16)
  /\ ParseInt(<<"0", "X", "1", "f">>) = Num(31)
  /\ ParseInt(<<"\t", "5">>) = Num(5)
  /\ ParseInt(<<"\n", "3">>) = Num(3)
  /\ ParseInt(<<" ", "7">>) = Num(7)
  /\ ParseInt(<<"0", "x">>) = NaN
  /\ ParseInt(<<"-", "0", "x", "a">>) = Num(0 - 10)
  /\ ParseInt(<<" ", "2", "x">>) = Num(2)
  /\ ParseInt(<<"-", "1", "2">>) = Num(0 - 12)
  /\ ParseInt(<<>>) = NaN
  /\ ParseInt(<<"U+2003", "5">>) = Num(5)
  /\ ParseInt(<<"U+3000", "U+2028", "-", "5">>) = Num(0 - 5)
  /\ SkipSpaces(<<"U+202F", "U+205F", "5", "U+2000">>) = <<"5", "U+2000">>
  /\ \A c \in WhiteSpace : ParseInt(<<c, "1">>) = Num(1)
  /\ Cardinality(WhiteSpace) = 25

\* worked values of property reads on a decoded token
GetExamples ==
  /\ Truthy(Get([uid |-> Str("u2")], "constructor"))
  /\ Truthy(Get([uid |-> Str("u2")], "toString"))
  /\ Truthy(Get([uid |-> Str("u2")], "hasOwnProperty"))
  /\ Truthy(Get([uid |-> Str("u2")], "__proto__"))
  /\ TypeOf(Get([uid |-> Str("u2")], "valueOf")) = "function"
  /\ Get([uid |-> Str("u2")], "admin") = Undefined
  /\ Get([uid |-> Str("u2"), admin |-> Bool(TRUE)], "admin") = Bool(TRUE)

====
